---- MODULE Spec2Model ----
(***************************************************************************)
(* ENS helper library of the Kenya ENS curriculum: the namehash encoder    *)
(* (shared helper, seed script, ENSInteraction and ProductionENSManager    *)
(* copies) and the validateENSName label validator; the callers built on   *)
(* them (ENSProject, the ProductionENSManager request methods, the seed    *)
(* script); ENSDomainManager.registerDomain and the retry helper, each     *)
(* stepped from one await to the next; RateLimiter.checkLimit and the      *)
(* ENSMobileManager text-record cache under interleaving; the batchResolve *)
(* methods; the ENSDomainInput debounce; the content-hash helpers.         *)
(*                                                                         *)
(* A JavaScript string is a sequence of UTF-16 code units (naturals).      *)
(* A byte string / DataHexString is a record [hex, len, repr]: hex tells   *)
(* a '0x..' string from a Uint8Array, len is its byte length, repr its     *)
(* content.  keccak256 is a collision-free symbolic digest: its 32 bytes   *)
(* are represented by the bracketed pre-image, -1 <pre-image> -2.          *)
(***************************************************************************)
EXTENDS Integers, Sequences, FiniteSets, TLC

VARIABLES call, arg, ret, mgr, proj, world, events, reg, rt,
          rl, batch, mob, inp

vars == <<call, arg, ret, mgr, proj, world, events, reg, rt,
         rl, batch, mob, inp>>

\* what the encoder and validator calls leave alone
\* the rate limiter, the batch call, the mobile manager and the input component
extra == <<rl, batch, mob, inp>>

others == <<proj, world, events, reg, rt, extra>>

----------------------------------------------------------------------------
(* Bounds of the input space *)

\* longest dotted name over {a, b, .} handed to the encoder
MaxNameUnits == 5
\* longest name over the mixed alphabet (ASCII, Latin-1, BMP, surrogates)
MaxUnicodeUnits == 2
\* longest label over the validator's mixed alphabet
MaxShort == 3
\* longest run of one repeated character in a padded label
MaxPad == 65
\* how many ten-second steps the clock takes during one registration
MaxTicks == 8
\* largest maxRetries handed to retry
MaxAttempts == 4

\* names in one batchResolve call
MaxBatch == 2

----------------------------------------------------------------------------
(* UTF-16 code units *)

CodeOf ==
  [dot |-> 46, hyphen |-> 45, zero |-> 48, one |-> 49, two |-> 50, three |-> 51,
   nine |-> 57,
   A |-> 65, E |-> 69, H |-> 72, I |-> 73, O |-> 79, Q |-> 81, T |-> 84, Z |-> 90,
   a |-> 97, b |-> 98, c |-> 99, d |-> 100, e |-> 101, f |-> 102, g |-> 103, h |-> 104,
   i |-> 105, k |-> 107, l |-> 108, m |-> 109, n |-> 110, o |-> 111, p |-> 112,
   r |-> 114, s |-> 115, t |-> 116, v |-> 118, x |-> 120, y |-> 121, z |-> 122,
   underscore |-> 95, newline |-> 10,
   eacute |-> 233, euro |-> 8364, highSurrogate |-> 55357, lowSurrogate |-> 56832]

\* a string literal, written as the names of its code units
Str(names) == [k \in 1..Len(names) |-> CodeOf[names[k]]]

RECURSIVE Repeat(_, _)
\* String.prototype.repeat
Repeat(unit, count) == IF count = 0 THEN <<>> ELSE <<unit>> \o Repeat(unit, count - 1)

RECURSIVE StringsUpTo(_, _)
\* every string over `units` of length at most `maxLen`
StringsUpTo(units, maxLen) ==
  IF maxLen = 0 THEN {<<>>}
  ELSE LET shorter == StringsUpTo(units, maxLen - 1)
       IN shorter \cup {Append(s, u) : s \in {x \in shorter : Len(x) = maxLen - 1}, u \in units}

----------------------------------------------------------------------------
(* JavaScript values *)

JsString(s) == [type |-> "string", str |-> s]
NonStrings == {[type |-> ty, str |-> <<>>] :
                 ty \in {"null", "undefined", "zero", "number", "object", "array"}}

\* the typeof operator
Typeof(v) ==
  CASE v.type = "string" -> "string"
    [] v.type = "undefined" -> "undefined"
    [] v.type \in {"zero", "number"} -> "number"
    [] OTHER -> "object"

\* ToBoolean, as used by `if (name)`
Truthy(v) ==
  CASE v.type = "string" -> v.str # <<>>
    [] v.type \in {"null", "undefined", "zero"} -> FALSE
    [] OTHER -> TRUE

\* v === ''
IsEmptyString(v) == v.type = "string" /\ v.str = <<>>

----------------------------------------------------------------------------
(* ethers.utils byte helpers *)

NoData == [hex |-> FALSE, len |-> 0, repr |-> <<>>]

\* ethers.constants.HashZero: '0x' followed by 64 zeros
HashZero == [hex |-> TRUE, len |-> 32, repr |-> [k \in 1..32 |-> 0]]

\* ethers.utils.arrayify: DataHexString or bytes to Uint8Array
arrayify(d) == [d EXCEPT !.hex = FALSE]

\* mutant: the two items are joined in the other order
ConcatSwapped(first, second) ==
  [hex |-> FALSE,
   len |-> arrayify(first).len + arrayify(second).len,
   repr |-> arrayify(second).repr \o arrayify(first).repr]

\* ethers.utils.concat of two items: each is arrayified, the bytes are joined
concat(first, second) ==
  [hex |-> FALSE,
   len |-> arrayify(first).len + arrayify(second).len,
   repr |-> arrayify(first).repr \o arrayify(second).repr]

\* ethers.utils.keccak256: 32-byte digest of the bytes, as a DataHexString
keccak256(d) ==
  [hex |-> TRUE, len |-> 32, repr |-> <<-1>> \o arrayify(d).repr \o <<-2>>]

RECURSIVE Flatten(_, _, _)
\* the pieces from position lo to position hi, joined
Flatten(pieces, lo, hi) ==
  IF lo > hi THEN <<>>
  ELSE IF lo = hi THEN pieces[lo]
  ELSE LET mid == (lo + hi) \div 2
       IN Flatten(pieces, lo, mid) \o Flatten(pieces, mid + 1, hi)

IsHighSurrogate(unit) == unit \in 55296..56319
IsLowSurrogate(unit) == unit \in 56320..57343

\* the bytes the encoding loop of ethers.utils.toUtf8Bytes writes when it
\* stands at position k: one to three bytes for a code unit, four for a
\* surrogate pair
Utf8At(s, k) ==
  LET u == s[k] IN
    IF u < 128 THEN <<u>>
    ELSE IF u < 2048 THEN <<192 + (u \div 64), 128 + (u % 64)>>
    ELSE IF IsHighSurrogate(u) THEN
      LET pair == 65536 + ((u % 1024) * 1024) + (s[k + 1] % 1024)
      IN <<240 + (pair \div 262144), 128 + ((pair \div 4096) % 64),
           128 + ((pair \div 64) % 64), 128 + (pair % 64)>>
    ELSE <<224 + (u \div 4096), 128 + ((u \div 64) % 64), 128 + (u % 64)>>

\* ethers.utils.toUtf8Bytes: a high surrogate with no low surrogate after it
\* throws; the loop steps over the low half of a pair
toUtf8Bytes(s) ==
  IF \E k \in 1..Len(s) :
       IsHighSurrogate(s[k]) /\ (k = Len(s) \/ ~IsLowSurrogate(s[k + 1]))
  THEN [ok |-> FALSE, data |-> NoData]
  ELSE LET out == Flatten([k \in 1..Len(s) |->
                             IF IsLowSurrogate(s[k]) /\ k > 1 /\ IsHighSurrogate(s[k - 1])
                               THEN <<>> ELSE Utf8At(s, k)], 1, Len(s))
       IN [ok |-> TRUE, data |-> [hex |-> FALSE, len |-> Len(out), repr |-> out]]

\* one hex digit as hexlify writes it: 0-9, a-f
HexDigit(nibble) ==
  IF nibble < 10 THEN CodeOf.zero + nibble ELSE CodeOf.a + (nibble - 10)

\* ethers.utils.hexlify: '0x' and two lower-case hex digits per byte
Hexlify(bytes) ==
  <<CodeOf.zero, CodeOf.x>> \o
    [k \in 1..(2 * Len(bytes)) |->
       IF k % 2 = 1 THEN HexDigit(bytes[(k + 1) \div 2] \div 16)
       ELSE HexDigit(bytes[k \div 2] % 16)]

----------------------------------------------------------------------------
(* String helpers *)

RECURSIVE SplitFrom(_, _, _, _)
SplitFrom(s, k, current, out) ==
  IF k > Len(s) THEN Append(out, current)
  ELSE IF s[k] = CodeOf.dot THEN SplitFrom(s, k + 1, <<>>, Append(out, current))
  ELSE SplitFrom(s, k + 1, Append(current, s[k]), out)

\* name.split('.')
Split(s) == SplitFrom(s, 1, <<>>, <<>>)

\* Array.prototype.reverse
Reverse(list) == [k \in 1..Len(list) |-> list[Len(list) + 1 - k]]

\* String.prototype.toLowerCase on the code units of the model
ToLowerCase(s) ==
  [k \in 1..Len(s) |-> IF s[k] \in CodeOf.A..CodeOf.Z THEN s[k] + 32 ELSE s[k]]

----------------------------------------------------------------------------
(* Results of a call *)

Return(node) == [kind |-> "return", node |-> node, valid |-> FALSE, errors |-> <<>>]
Throw(message) == [kind |-> "throw", node |-> NoData, valid |-> FALSE, errors |-> <<message>>]
\* a pending Promise object handed back to a synchronous caller
PromiseObject == [kind |-> "promise", node |-> NoData, valid |-> FALSE, errors |-> <<>>]
Validation(errors) ==
  [kind |-> "return", node |-> NoData, valid |-> (Len(errors) = 0), errors |-> errors]
NoCall == [kind |-> "none", node |-> NoData, valid |-> FALSE, errors |-> <<>>]

\* JavaScript values a field of a result object holds: null, a missing
\* property, a value, an error message
JsNull == [tag |-> "null", data |-> NoData, message |-> <<>>]
JsUndefined == [tag |-> "undefined", data |-> NoData, message |-> <<>>]
ValueOf(data) == [tag |-> "value", data |-> data, message |-> <<>>]
MessageOf(errors) == [tag |-> "string", data |-> NoData, message |-> errors]
\* the object { error: error.message }
ErrorObject(errors) == [tag |-> "object", data |-> NoData, message |-> errors]

----------------------------------------------------------------------------
(* The namehash encoder *)

RECURSIVE HashLabels(_, _, _)
\* for (const label of labels) node = keccak256(concat([node, keccak256(toUtf8Bytes(label))]))
HashLabels(labels, k, node) ==
  IF k > Len(labels) THEN Return(node)
  ELSE LET bytes == toUtf8Bytes(labels[k]) IN
    IF ~bytes.ok THEN Throw("invalid utf-8 string")
    ELSE HashLabels(labels, k + 1, keccak256(concat(node, keccak256(bytes.data))))

\* the same loop with concat([arrayify(node), ...])
RECURSIVE HashLabelsArrayify(_, _, _)
HashLabelsArrayify(labels, k, node) ==
  IF k > Len(labels) THEN Return(node)
  ELSE LET bytes == toUtf8Bytes(labels[k]) IN
    IF ~bytes.ok THEN Throw("invalid utf-8 string")
    ELSE HashLabelsArrayify(labels, k + 1,
           keccak256(concat(arrayify(node), keccak256(bytes.data))))

\* mutant: the labels are folded in without being reversed
NamehashUnreversed(name) ==
  IF IsEmptyString(name) THEN Return(HashZero)
  ELSE IF name.type # "string" THEN Throw("TypeError")
  ELSE HashLabels(Split(name.str), 1, HashZero)

\* mutant: empty labels are dropped before hashing
NamehashSkipEmpty(name) ==
  IF IsEmptyString(name) THEN Return(HashZero)
  ELSE IF name.type # "string" THEN Throw("TypeError")
  ELSE HashLabels(Reverse(SelectSeq(Split(name.str), LAMBDA l : l # <<>>)), 1, HashZero)

\* namehash of examples/shared-utilities/ens-helpers.js
namehash(name) ==
  IF IsEmptyString(name) THEN Return(HashZero)
  ELSE IF name.type # "string" THEN Throw("TypeError")   \* name.split is not callable
  ELSE HashLabels(Reverse(Split(name.str)), 1, HashZero)

\* namehash of hardhat/scripts/01-seed-ens.js
SeedNamehash(name) ==
  IF ~Truthy(name) THEN Return(HashZero)
  ELSE IF name.type # "string" THEN Throw("TypeError")
  ELSE HashLabelsArrayify(Reverse(Split(name.str)), 1, HashZero)

\* ENSInteraction.namehash
InteractionNamehash(name) ==
  IF IsEmptyString(name) THEN Return(HashZero)
  ELSE IF name.type # "string" THEN Throw("TypeError")
  ELSE HashLabels(Reverse(Split(name.str)), 1, HashZero)

\* ProductionENSManager.namehash: this.cache.get is async, so `cached` is a
\* Promise, which is truthy, and is what the method returns
ManagerNamehash(manager, name) ==
  IF ~manager.cache THEN Throw("TypeError")     \* this.cache is null
  ELSE PromiseObject

----------------------------------------------------------------------------
(* The label validator *)

MinNameLength == 3
MaxNameLength == 63

\* the character class [a-z0-9]
IsLowerAlnum(u) == u \in CodeOf.a..CodeOf.z \/ u \in CodeOf.zero..CodeOf.nine

\* /^[a-z0-9-]+$/.test(s)
MatchesCharset(s) ==
  Len(s) >= 1 /\ \A k \in 1..Len(s) : IsLowerAlnum(s[k]) \/ s[k] = CodeOf.hyphen

\* mutant: the pattern is anchored at the start of the name
HasDoubleHyphenAnchored(s) ==
  Len(s) >= 2 /\ s[1] = CodeOf.hyphen /\ s[2] = CodeOf.hyphen

\* /--/.test(s)
HasDoubleHyphen(s) ==
  \E k \in 1..(Len(s) - 1) : s[k] = CodeOf.hyphen /\ s[k + 1] = CodeOf.hyphen

\* /^[a-z0-9]/.test(s)
StartsAlnum(s) == Len(s) >= 1 /\ IsLowerAlnum(s[1])

\* /[a-z0-9]$/.test(s)
EndsAlnum(s) == Len(s) >= 1 /\ IsLowerAlnum(s[Len(s)])

\* const reserved = ['eth', 'xyz', 'com', 'org', 'net', 'io', 'app']
reserved ==
  {Str(<<"e", "t", "h">>), Str(<<"x", "y", "z">>), Str(<<"c", "o", "m">>),
   Str(<<"o", "r", "g">>), Str(<<"n", "e", "t">>), Str(<<"i", "o">>),
   Str(<<"a", "p", "p">>)}

MsgNotString == "Name must be a string"
MsgLength == "Name must be between 3 and 63 characters"
MsgCharset == "Name can only contain lowercase letters, numbers, and hyphens"
MsgHyphens == "Name cannot contain consecutive hyphens"
MsgStartEnd == "Name must start and end with alphanumeric character"
MsgReserved == "This name is reserved"

\* errors.push(message) when the rule's condition holds
PushIf(errors, condition, message) == IF condition THEN Append(errors, message) ELSE errors

\* mutant: the upper length bound is exclusive
LengthOutOfRangeExclusive(s) == Len(s) < MinNameLength \/ Len(s) >= MaxNameLength

\* mutant: the lower length bound is one too low
LengthOutOfRangeLow(s) == Len(s) < MinNameLength - 1 \/ Len(s) > MaxNameLength

\* name.length < 3 || name.length > 63
LengthOutOfRange(s) == Len(s) < MinNameLength \/ Len(s) > MaxNameLength

\* mutant: the reserved list is compared with the name as typed
IsReservedCaseSensitive(s) == s \in reserved

\* reserved.includes(name.toLowerCase())
IsReserved(s) == ToLowerCase(s) \in reserved

\* mutant: only the last character is checked
BadEdgesEndOnly(s) == ~EndsAlnum(s)

\* mutant: only the first character is checked
BadEdgesStartOnly(s) == ~StartsAlnum(s)

\* !/^[a-z0-9]/.test(name) || !/[a-z0-9]$/.test(name)
BadEdges(s) == ~StartsAlnum(s) \/ ~EndsAlnum(s)

\* the five rule checks of validateENSName, in source order
RuleChecks(s) ==
  LET e1 == PushIf(<<>>, LengthOutOfRange(s), MsgLength)
      e2 == PushIf(e1, ~MatchesCharset(s), MsgCharset)
      e3 == PushIf(e2, HasDoubleHyphen(s), MsgHyphens)
      e4 == PushIf(e3, BadEdges(s), MsgStartEnd)
      e5 == PushIf(e4, IsReserved(s), MsgReserved)
  IN e5

\* mutant: the validator returns at the first violation
ValidateFailFast(name) ==
  IF Typeof(name) # "string" THEN Validation(<<MsgNotString>>)
  ELSE Validation(SubSeq(RuleChecks(name.str), 1, 1))

\* mutant: the typeof guard is missing; null.length, undefined.length and
\* toLowerCase of a number, object or array throw
ValidateNoTypeGuard(name) ==
  IF Typeof(name) = "string" THEN Validation(RuleChecks(name.str))
  ELSE Throw("TypeError")

\* validateENSName of examples/shared-utilities/ens-helpers.js
validateENSName(name) ==
  IF Typeof(name) # "string" THEN Validation(<<MsgNotString>>)
  ELSE Validation(RuleChecks(name.str))

\* validateENSName of modules/06-advanced-integration/examples/production-ens-manager.js
ManagerValidateENSName(name) ==
  IF Typeof(name) # "string" THEN Validation(<<MsgNotString>>)
  ELSE LET s == name.str
           e1 == PushIf(<<>>, Len(s) < MinNameLength \/ Len(s) > MaxNameLength, MsgLength)
           e2 == PushIf(e1, ~MatchesCharset(s), MsgCharset)
           e3 == PushIf(e2, HasDoubleHyphen(s), MsgHyphens)
           e4 == PushIf(e3, ~StartsAlnum(s) \/ ~EndsAlnum(s), MsgStartEnd)
           e5 == PushIf(e4, ToLowerCase(s) \in reserved, MsgReserved)
       IN Validation(e5)

----------------------------------------------------------------------------
(* Inputs *)

\* dotted names over {a, b, .}
DottedNames == StringsUpTo({CodeOf.a, CodeOf.b, CodeOf.dot}, MaxNameUnits)

\* short names that mix ASCII with two-byte, three-byte and surrogate code units
UnicodeNames ==
  StringsUpTo({CodeOf.a, CodeOf.dot, CodeOf.eacute, CodeOf.euro,
               CodeOf.highSurrogate, CodeOf.lowSurrogate}, MaxUnicodeUnits)

\* the names of the published ENS test vectors
KnownNames ==
  {Str(<<"e", "t", "h">>), Str(<<"f", "o", "o", "dot", "e", "t", "h">>)}

EncoderStrings == DottedNames \cup UnicodeNames \cup KnownNames

EncoderArgs == {JsString(s) : s \in EncoderStrings} \cup NonStrings

\* every short string over letters, digits, hyphen and characters outside the set
ShortLabels ==
  StringsUpTo({CodeOf.a, CodeOf.i, CodeOf.o, CodeOf.nine, CodeOf.hyphen, CodeOf.dot,
               CodeOf.A, CodeOf.O, CodeOf.underscore, CodeOf.newline, CodeOf.eacute},
              MaxShort)

\* every way of writing a reserved word in upper and lower case
ReservedVariants ==
  UNION {{v \in [1..Len(w) -> {w[k] : k \in 1..Len(w)} \cup {w[k] - 32 : k \in 1..Len(w)}] :
            \A k \in 1..Len(w) : v[k] = w[k] \/ v[k] = w[k] - 32} : w \in reserved}

\* what may stand before and after a run of one repeated letter
Edges ==
  {<<>>, Str(<<"hyphen">>), Str(<<"hyphen", "hyphen">>), Str(<<"A">>), Str(<<"nine">>),
   Str(<<"e", "t", "h">>)}

PaddedLabels ==
  {pre \o Repeat(CodeOf.a, count) \o post :
     pre \in Edges, post \in Edges, count \in 0..MaxPad}

\* the labels the documentation uses as examples
ExampleLabels ==
  {Str(<<"m", "y", "hyphen", "hyphen", "n", "a", "m", "e">>),
   Str(<<"hyphen", "m", "y", "n", "a", "m", "e">>),
   Str(<<"m", "y", "n", "a", "m", "e", "hyphen">>),
   Str(<<"m", "y", "n", "a", "m", "e">>)}

ValidatorStrings == ShortLabels \cup ReservedVariants \cup PaddedLabels \cup ExampleLabels

ValidatorArgs == {JsString(s) : s \in ValidatorStrings} \cup NonStrings

----------------------------------------------------------------------------
(* The ProductionENSManager object *)

\* constructor: provider, redis, cache are null
NewManager == [provider |-> FALSE, redis |-> FALSE, cache |-> FALSE]

----------------------------------------------------------------------------
(* The ENSProject object and the world its calls meet *)

\* constructor: provider is null, contracts is {}, isInitialized is false
NewProject == [provider |-> FALSE, contracts |-> FALSE, isInitialized |-> FALSE]

\* how the chain, the wallet and redis answer the calls of one operation
\*   registry: registry.resolver(node) / registry.owner(node) answers the zero
\*             address (an owner that is not the signer), a set one, or rejects
\*   resolver: resolver.addr / text / contenthash likewise
\*   tx:       the signed transaction is mined, is refused when sent, reverts,
\*             or the private key is not one
\*   redis:    the cache holds the key, misses it, or the client is over its limit
Worlds ==
  [registry : {"zero", "set", "reject"}, resolver : {"zero", "set", "reject"},
   tx : {"ok", "sendFails", "reverts", "badKey"}, redis : {"hit", "miss", "limited"}]

\* no call is in progress
NoWorld == [registry |-> "none", resolver |-> "none", tx |-> "none", redis |-> "none"]


----------------------------------------------------------------------------
(* ENSDomainManager.registerDomain, one action per await *)

\* setTimeout keeps a delay within 1 .. 2^31 - 1 ms and turns any other into 1 ms
TimeoutMax == 2147483647

\* what setTimeout makes of the delay it is handed
TimerDelay(ms) == IF ms < 1 \/ ms > TimeoutMax THEN 1 ELSE ms

MsPerSecond == 1000

\* mutant: the age in seconds is handed to setTimeout as it is
CommitmentDelayUnscaled(minAge) == TimerDelay(minAge)

\* setTimeout(resolve, minAge * 1000)
CommitmentDelay(minAge) == TimerDelay(minAge * MsPerSecond)

\* the clock moves in steps of ten seconds
TickMs == 10 * MsPerSecond

\* mutant: an availability check that failed counts as available
AvailableUnlessFalse(answer) == answer # "false"

\* checkAvailability: the controller's answer, and false when the call threw
Available(answer) == answer = "true"

\* what minCommitmentAge() may answer, in seconds
CommitmentAges == {0, 1, 60}

RegisterNames == {Str(<<"a", "b", "c">>), Str(<<"v", "i", "t", "a", "l", "i", "k">>)}
Owners == {"alice", "bob"}
Salts == {"salt1", "salt2"}

\* the name, owner and secret a controller call carries
Args(name, owner, salt) == [name |-> name, owner |-> owner, salt |-> salt]
NoArgs == Args(<<>>, "", "")

\* one controller or provider call: its answer and what it carried
Step(op, answer, args) == [op |-> op, answer |-> answer, args |-> args]

\* no registerDomain call is in progress
NoRegistration ==
  [pc |-> "idle", name |-> <<>>, owner |-> "", salt |-> "", minAge |-> 0,
   now |-> 0, confirmedAt |-> 0, due |-> 0, sentAt |-> 0, log |-> <<>>, error |-> ""]

\* the call is over, with a result or with an error
Settled == {"resolved", "rejected"}

\* throw: the catch block logs and rethrows, nothing else runs
Abort(answer, args, message) ==
  [reg EXCEPT !.pc = "rejected", !.error = message,
              !.log = Append(@, Step(reg.pc, answer, args))]

\* the awaited call succeeded and the method goes on to its next await
Proceed(answer, args, next) ==
  [reg EXCEPT !.pc = next, !.log = Append(@, Step(reg.pc, answer, args))]

----------------------------------------------------------------------------
(* retry(operation, maxRetries, delay) of ens-helpers.js, one action per await *)

\* no retry call is in progress; lastError 0 is undefined, k is what the k-th
\* invocation of operation threw; settled 0 likewise
NoRetry ==
  [pc |-> "idle", maxRetries |-> 0, first |-> 0, delay |-> 0, i |-> 0, calls |-> 0,
   sleeps |-> <<>>, lastError |-> 0, settled |-> 0]

\* the delay argument: none, a millisecond, the default
RetryDelays == {0, 1, 1000}

\* mutant: the delay stays what it was
DelayKept(delay) == delay

\* delay *= 2
DelayDoubled(delay) == delay * 2

\* mutant: a sleep follows every failed attempt, the last one too
SleepsAfterAny(i, maxRetries) == i < maxRetries

\* if (i < maxRetries - 1)
SleepsAfter(i, maxRetries) == i < maxRetries - 1

----------------------------------------------------------------------------
(* RateLimiter.checkLimit over the redis sorted set, one action per await *)

\* concurrent checkLimit calls on one identifier
MaxClients == 2

\* checkLimit calls started in one run
MaxCalls == 3

\* milliseconds Date.now() advances in one run
MaxClock == 2

Clients == 1..MaxClients

\* constructor arguments tried: maxRequests and windowMs
LimiterMaxima == {1, 2}

WindowSizes == {1, 2}

IdleCheck == [pc |-> "idle", now |-> 0, requestCount |-> 0, recorded |-> FALSE,
              error |-> "none"]

\* before new RateLimiter(...); zset is the sorted set at ratelimit:<identifier>,
\* each member the decimal text of its score, so a member is its score
NoLimiter ==
  [made |-> FALSE, maxRequests |-> 0, windowMs |-> 0, clock |-> 0, zset |-> {},
   ttl |-> 0, calls |-> [c \in Clients |-> IdleCheck], started |-> 0,
   granted |-> <<>>]

\* zremrangebyscore(key, '-inf', windowStart)
RemoveThrough(zset, windowStart) == {m \in zset : m > windowStart}

\* zadd(key, now, now.toString()): a member already present is kept once
ZaddMember(zset, now) == zset \cup {now}

\* requestCount >= this.maxRequests
LimitReached(requestCount, maxRequests) == requestCount >= maxRequests

\* Math.ceil(this.windowMs / 1000)
ExpireSeconds(windowMs) == (windowMs + MsPerSecond - 1) \div MsPerSecond

----------------------------------------------------------------------------
(* batchResolve: the state of one call *)

\* no batchResolve call in progress
NoBatch ==
  [pc |-> "none", kind |-> "none", names |-> <<>>, worlds |-> <<>>,
   inner |-> <<>>, entries |-> <<>>, error |-> "none"]

----------------------------------------------------------------------------
(* ENSMobileManager: the text-record cache, one action per await *)

\* concurrent getTextRecord calls on one (name, key)
MaxReaders == 2

\* getTextRecord calls and setTextRecord calls started in one run
MaxReads == 2

MaxWrites == 2

\* steps the clock takes in one run
MaxMobileTicks == 2

Readers == 1..MaxReaders

\* Date.now() - cached.timestamp < 300000
CacheLifetimeMs == 300000

\* the clock moves by half a cache lifetime
MobileTickMs == CacheLifetimeMs \div 2

Fresh(now, timestamp) == now - timestamp < CacheLifetimeMs

\* the text values setTextRecord is given; 0 is the record the resolver starts with
TextValues == {1, 2}

NoEntry == [has |-> FALSE, value |-> 0, timestamp |-> 0]

\* this.cache.set(cacheKey, { value, timestamp: Date.now() })
EntryAt(value, now) == [has |-> TRUE, value |-> value, timestamp |-> now]

IdleGet == [pc |-> "idle", value |-> 0, expected |-> 0, error |-> "none"]

IdleSet == [pc |-> "idle", value |-> 0, error |-> "none"]

\* ENSMobileManager.constructor: signer is null, the cache is an empty Map,
\* isInitialized is false; entry is the cache entry text:<name>:<key>, stored
\* its copy in AsyncStorage, chain the record the resolver holds, confirmed
\* the value of the last setTextRecord that returned
NewMobileManager ==
  [isInitialized |-> FALSE, signer |-> FALSE, entry |-> NoEntry, stored |-> NoEntry,
   chain |-> 0, clock |-> 0, get |-> [r \in Readers |-> IdleGet], set |-> IdleSet,
   reads |-> 0, writes |-> 0, confirmed |-> 0]

----------------------------------------------------------------------------
(* ENSDomainInput: input changes and the debounced validation *)

\* input changes in one run
MaxChanges == 3

\* steps the clock takes in one run
MaxInputTicks == 3

\* the debounceMs prop (default 300)
DebounceMs == 300

\* the clock moves by half a debounce delay
InputTickMs == DebounceMs \div 2

\* if (newValue.length >= 3)
ValidateFromLength == 3

\* useState({ valid: true, errors: [] })
ResetValidation == [valid |-> TRUE, errors |-> <<>>]

\* the object validateENSName returns
ValidationOf(name) ==
  LET result == validateENSName(JsString(name))
  IN [valid |-> result.valid, errors |-> result.errors]

\* the timeout variable of the debounce closure
NoTimer == [pending |-> FALSE, name |-> <<>>, due |-> 0]

\* setTimeout(later, wait) with the arguments of the last call
TimerFor(name, now, wait) == [pending |-> TRUE, name |-> name, due |-> now + TimerDelay(wait)]

\* the maxSuggestions prop (default 5)
MaxSuggestions == 5

\* generateSuggestions(baseName): five names, cut to maxSuggestions, each
\* with the .eth suffix, for a base name of two characters or more
SuggestionsFor(baseName) ==
  IF Len(baseName) < 2 THEN <<>>
  ELSE LET mockSuggestions ==
             <<baseName \o Str(<<"zero", "one">>), baseName \o Str(<<"zero", "two">>),
               baseName \o Str(<<"zero", "three">>), Str(<<"m", "y">>) \o baseName,
               baseName \o Str(<<"a", "p", "p">>)>>
       IN [k \in 1..MaxSuggestions |-> mockSuggestions[k] \o Str(<<"dot", "e", "t", "h">>)]

\* the component after its first render with value = '': fired lists, for
\* every run of the debounced callback, the name it validated and the input
\* value at that time
NewInput ==
  [inputValue |-> <<>>, isValidating |-> FALSE, validation |-> ResetValidation,
   suggestions |-> <<>>, timer |-> NoTimer, clock |-> 0, changes |-> 0,
   fired |-> <<>>]

\* what the user types or pastes
InputValues ==
  {<<>>, Str(<<"a", "b">>), Str(<<"a", "b", "c">>), Str(<<"hyphen", "a", "b">>),
   Str(<<"A", "b", "c">>)}

----------------------------------------------------------------------------
(* encodeContentHash and decodeContentHash of ens-helpers.js *)

\* longest run of one repeated character appended to an IPFS hash
MaxHashPad == 254

RECURSIVE Digits256(_)
\* the loop of ethers.utils.arrayify(number): base-256 digits, most significant first
Digits256(value) ==
  IF value = 0 THEN <<>> ELSE Digits256(value \div 256) \o <<value % 256>>

\* ethers.utils.arrayify of a number: at least one byte
ArrayifyNumber(value) == IF value = 0 THEN <<0>> ELSE Digits256(value)

\* value of one hex character, -1 for any other character
HexValue(unit) ==
  IF unit \in CodeOf.zero..CodeOf.nine THEN unit - CodeOf.zero
  ELSE IF unit \in CodeOf.a..CodeOf.f THEN unit - CodeOf.a + 10
  ELSE IF unit \in CodeOf.A..(CodeOf.A + 5) THEN unit - CodeOf.A + 10
  ELSE -1

\* ethers.utils.arrayify of a string: '0x' and an even number of hex digits,
\* anything else throws
ArrayifyString(s) ==
  IF /\ Len(s) >= 2
     /\ s[1] = CodeOf.zero /\ s[2] = CodeOf.x
     /\ Len(s) % 2 = 0
     /\ \A k \in 3..Len(s) : HexValue(s[k]) >= 0
  THEN [ok |-> TRUE,
        bytes |-> [k \in 1..((Len(s) - 2) \div 2) |->
                     16 * HexValue(s[2 * k + 1]) + HexValue(s[2 * k + 2])]]
  ELSE [ok |-> FALSE, bytes |-> <<>>]

\* how many bytes follow the first byte of a UTF-8 sequence, -1 for a byte
\* that cannot start one
Utf8Extra(byte) ==
  IF byte < 128 THEN 0
  ELSE IF byte \in 192..223 THEN 1
  ELSE IF byte \in 224..239 THEN 2
  ELSE IF byte \in 240..247 THEN 3
  ELSE -1

\* the UTF-16 code units of a code point
Utf16Of(point) ==
  IF point < 65536 THEN <<point>>
  ELSE <<55296 + ((point - 65536) \div 1024), 56320 + ((point - 65536) % 1024)>>

\* a byte 10xxxxxx
IsContinuation(byte) == byte \in 128..191

\* the code point of the sequence that starts at position k
PointAt(bytes, k) ==
  LET first == bytes[k]
      more == Utf8Extra(first)
  IN CASE more = 0 -> first
       [] more = 1 -> (first % 32) * 64 + (bytes[k + 1] % 64)
       [] more = 2 -> (first % 16) * 4096 + (bytes[k + 1] % 64) * 64 + (bytes[k + 2] % 64)
       [] OTHER -> (first % 8) * 262144 + (bytes[k + 1] % 64) * 4096
                     + (bytes[k + 2] % 64) * 64 + (bytes[k + 3] % 64)

\* the smallest code point a sequence of that length may encode
LeastPoint(more) ==
  CASE more = 0 -> 0 [] more = 1 -> 128 [] more = 2 -> 2048 [] OTHER -> 65536

\* the sequence that starts at position k is well formed: a known prefix, all
\* its continuation bytes present and no more than those, not overlong, no
\* surrogate, not above 0x10ffff
WellFormedAt(bytes, k) ==
  LET more == Utf8Extra(bytes[k]) IN
    /\ more # -1
    /\ k + more <= Len(bytes)
    /\ \A j \in 1..more : IsContinuation(bytes[k + j])
    /\ k + more + 1 <= Len(bytes) => ~IsContinuation(bytes[k + more + 1])
    /\ PointAt(bytes, k) >= LeastPoint(more)
    /\ PointAt(bytes, k) <= 1114111
    /\ PointAt(bytes, k) \notin 55296..57343

\* ethers.utils.toUtf8String: the code units of every sequence, in order; a
\* continuation byte out of place, a bad prefix, a sequence cut short, an
\* overlong form, a surrogate or a value above 0x10ffff throws
toUtf8String(bytes) ==
  IF \/ (Len(bytes) > 0 /\ IsContinuation(bytes[1]))
     \/ \E k \in 1..Len(bytes) : ~IsContinuation(bytes[k]) /\ ~WellFormedAt(bytes, k)
  THEN [ok |-> FALSE, str |-> <<>>]
  ELSE [ok |-> TRUE,
        str |-> Flatten([k \in 1..Len(bytes) |->
                           IF IsContinuation(bytes[k]) THEN <<>>
                           ELSE Utf16Of(PointAt(bytes, k))], 1, Len(bytes))]

\* String.prototype.startsWith
StartsWith(s, prefix) ==
  Len(s) >= Len(prefix) /\ SubSeq(s, 1, Len(prefix)) = prefix

\* Array.prototype.slice(from, to) on bytes, positions counted from 0
Slice(bytes, from, to) ==
  IF from >= Len(bytes) \/ to <= from THEN <<>>
  ELSE SubSeq(bytes, from + 1, IF to > Len(bytes) THEN Len(bytes) ELSE to)

\* the protocol code of IPFS
IpfsCode == 1

\* encodeContentHash(ipfsHash) for a string
encodeContentHash(ipfsHash) ==
  IF ~StartsWith(ipfsHash, Str(<<"Q", "m">>)) /\ ~StartsWith(ipfsHash, Str(<<"b", "a", "f", "y">>))
    THEN Throw("Invalid IPFS hash format")
  ELSE LET hashBytes == toUtf8Bytes(ipfsHash) IN
    IF ~hashBytes.ok THEN Throw("invalid codepoint")
    ELSE Return(JsString(Hexlify(<<IpfsCode>> \o ArrayifyNumber(hashBytes.data.len)
                                   \o hashBytes.data.repr)))

\* decodeContentHash(contentHash) for a string: any error gives the input back
decodeContentHash(contentHash) ==
  LET parsed == ArrayifyString(contentHash)
      bytes == parsed.bytes
  IN IF ~parsed.ok THEN Return(JsString(contentHash))
     ELSE IF Len(bytes) = 0 \/ bytes[1] # IpfsCode THEN Return(JsString(contentHash))
     ELSE LET hashBytes == IF Len(bytes) < 2 THEN <<>>
                           ELSE Slice(bytes, 2, 2 + bytes[2])
              decoded == toUtf8String(hashBytes)
          IN IF decoded.ok THEN Return(JsString(decoded.str))
             ELSE Return(JsString(contentHash))

\* decodeContentHash(encodeContentHash(h)): a throw of the encoder reaches the caller
RoundTrip(h) ==
  LET encoded == encodeContentHash(h)
  IN IF encoded.kind = "throw" THEN encoded ELSE decodeContentHash(encoded.node.str)

\* IPFS hashes and other strings: a prefix, a character of one to four UTF-8
\* bytes or an unpaired surrogate, and a run of one character
HashPrefixes == {Str(<<"Q", "m">>), Str(<<"b", "a", "f", "y">>), Str(<<"a", "b">>)}

HashTails ==
  {<<>>, <<CodeOf.eacute>>, <<CodeOf.euro>>, <<CodeOf.highSurrogate, CodeOf.lowSurrogate>>,
   <<CodeOf.highSurrogate>>}

HashPads == {0, 1, 44, 55, MaxHashPad - 2, MaxHashPad - 1, MaxHashPad}

HashStrings ==
  {prefix \o tail \o [k \in 1..pad |-> CodeOf.a] :
     prefix \in HashPrefixes, tail \in HashTails, pad \in HashPads}

\* content hashes handed to the decoder: what the encoder wrote, a hash of
\* another protocol, a string that is no hex string, the IPFS code alone
ContentHashStrings ==
  {encodeContentHash(h).node.str : h \in {x \in HashStrings : encodeContentHash(x).kind = "return"}}
    \cup {Str(<<"zero", "x", "zero", "two", "a", "b">>), Str(<<"Q", "m">>),
          Str(<<"zero", "x", "zero", "one">>), Str(<<"zero", "x">>)}

----------------------------------------------------------------------------
(* The namehash snippet of the Module 01 README *)

\* the DataHexString that the text '0x' + '0'.repeat(64) is
ReadmeZero ==
  LET text == Str(<<"zero", "x">>) \o Repeat(CodeOf.zero, 64)
      bytes == ArrayifyString(text).bytes
  IN [hex |-> TRUE, len |-> Len(bytes), repr |-> bytes]

\* namehash of modules/01-ens-fundamentals/README.md: the guard name === '',
\* the loop with concat([arrayify(node), ...])
ReadmeNamehash(name) ==
  IF IsEmptyString(name) THEN Return(ReadmeZero)
  ELSE IF name.type # "string" THEN Throw("TypeError")
  ELSE HashLabelsArrayify(Reverse(Split(name.str)), 1, ReadmeZero)

----------------------------------------------------------------------------
(* State machine: each action is one call of one function *)

Init ==
  /\ call = "none"
  /\ arg = JsString(<<>>)
  /\ ret = NoCall
  /\ mgr = NewManager
  /\ proj = NewProject
  /\ world = NoWorld
  /\ events = <<>>
  /\ reg = NoRegistration
  /\ rt = NoRetry
  /\ rl = NoLimiter
  /\ batch = NoBatch
  /\ mob = NewMobileManager
  /\ inp = NewInput

CallNamehash ==
  /\ call = "none"
  /\ \E v \in EncoderArgs :
      /\ call' = "namehash"
      /\ arg' = v
      /\ ret' = namehash(v)
      /\ UNCHANGED <<mgr, others>>

CallSeedNamehash ==
  /\ call = "none"
  /\ \E v \in EncoderArgs :
      /\ call' = "seed.namehash"
      /\ arg' = v
      /\ ret' = SeedNamehash(v)
      /\ UNCHANGED <<mgr, others>>

CallInteractionNamehash ==
  /\ call = "none"
  /\ \E v \in EncoderArgs :
      /\ call' = "ENSInteraction.namehash"
      /\ arg' = v
      /\ ret' = InteractionNamehash(v)
      /\ UNCHANGED <<mgr, others>>

\* ProductionENSManager.initialize: redis.connect() or getBlockNumber() may reject
ManagerInitialize ==
  /\ call = "none"
  /\ \E outcome \in {"connectFails", "blockNumberFails", "ok"} :
      /\ call' = "ProductionENSManager.initialize"
      /\ arg' = JsString(<<>>)
      /\ mgr' = IF outcome = "connectFails"
                THEN [mgr EXCEPT !.provider = TRUE, !.redis = TRUE]
                ELSE [provider |-> TRUE, redis |-> TRUE, cache |-> TRUE]
      /\ ret' = IF outcome = "ok" THEN Return(NoData) ELSE Throw(outcome)
      /\ UNCHANGED others

\* the caller has consumed the result and is ready for its next call
NextCall ==
  /\ call # "none"
  /\ call' = "none"
  /\ arg' = JsString(<<>>)
  /\ ret' = NoCall
  /\ world' = NoWorld
  /\ events' = <<>>
  /\ UNCHANGED <<mgr, proj, reg, rt, extra>>

CallManagerNamehash ==
  /\ call = "none"
  /\ \E v \in EncoderArgs :
      /\ call' = "ProductionENSManager.namehash"
      /\ arg' = v
      /\ ret' = ManagerNamehash(mgr, v)
      /\ UNCHANGED <<mgr, others>>

CallValidateENSName ==
  /\ call = "none"
  /\ \E v \in ValidatorArgs :
      /\ call' = "validateENSName"
      /\ arg' = v
      /\ ret' = validateENSName(v)
      /\ UNCHANGED <<mgr, others>>

CallManagerValidateENSName ==
  /\ call = "none"
  /\ \E v \in ValidatorArgs :
      /\ call' = "manager.validateENSName"
      /\ arg' = v
      /\ ret' = ManagerValidateENSName(v)
      /\ UNCHANGED <<mgr, others>>

CallReadmeNamehash ==
  /\ call = "none"
  /\ \E v \in EncoderArgs :
      /\ call' = "README.namehash"
      /\ arg' = v
      /\ ret' = ReadmeNamehash(v)
      /\ UNCHANGED <<mgr, others>>

EncoderNext ==
  \/ CallNamehash
  \/ CallReadmeNamehash
  \/ CallSeedNamehash
  \/ CallInteractionNamehash
  \/ ManagerInitialize
  \/ CallManagerNamehash
  \/ NextCall

ValidatorNext ==
  \/ CallValidateENSName
  \/ CallManagerValidateENSName
  \/ NextCall

\* the encoder alone
SpecEncoder == Init /\ [][EncoderNext]_vars

\* the validator alone
SpecValidator == Init /\ [][ValidatorNext]_vars

----------------------------------------------------------------------------
(* ENSProject (code template) and the ProductionENSManager request methods *)

\* an address: 20 bytes written as a hex string
Address(byte) == [hex |-> TRUE, len |-> 20, repr |-> [k \in 1..20 |-> byte]]

\* ethers.constants.AddressZero
AddressZero == Address(0)

\* the address a contract answers with when it has one
SetAddress == Address(1)

\* a text record, the empty text record, a content hash, a transaction response
TextValue == [hex |-> FALSE, len |-> 1, repr |-> <<CodeOf.x>>]
EmptyText == [hex |-> FALSE, len |-> 0, repr |-> <<>>]
ContentHash == [hex |-> TRUE, len |-> 1, repr |-> <<CodeOf.x>>]
EmptyHex == [hex |-> TRUE, len |-> 0, repr |-> <<>>]
TxResponse == [hex |-> TRUE, len |-> 32, repr |-> [k \in 1..32 |-> 1]]

\* one call made by an operation, with the node and label hash it carries
Event(op, node, label) == [op |-> op, node |-> node, label |-> label]
Did(op) == Event(op, NoData, NoData)
On(op, node) == Event(op, node, NoData)

\* what an operation has called, and how it ended
Outcome(log, result) == [events |-> log, ret |-> result]

\* throw new Error(`${prefix}${errors.join(', ')}`)
ThrowJoined(prefix, errors) ==
  [kind |-> "throw", node |-> NoData, valid |-> FALSE, errors |-> <<prefix>> \o errors]

MsgNotInitialized == "ENS Project not initialized"
MsgInvalidName == "Invalid ENS name: "
MsgInvalidParent == "Invalid parent domain: "

\* mutant: the name is validated after the work has been done
GuardedLate(project, name, prefix, work) ==
  IF ~project.isInitialized THEN Outcome(<<>>, Throw(MsgNotInitialized))
  ELSE LET validation == validateENSName(name)
           done == work.events \o <<Did("validateENSName")>>
       IN IF ~validation.valid THEN Outcome(done, ThrowJoined(prefix, validation.errors))
          ELSE Outcome(done, work.ret)

\* the opening of every ENSProject method: the isInitialized guard, then
\* validateENSName(name) and the throw on an invalid name, then the work
Guarded(project, name, prefix, work) ==
  IF ~project.isInitialized THEN Outcome(<<>>, Throw(MsgNotInitialized))
  ELSE LET validation == validateENSName(name)
           validated == <<Did("validateENSName")>>
       IN IF ~validation.valid
          THEN Outcome(validated, ThrowJoined(prefix, validation.errors))
          ELSE Outcome(validated \o work.events, work.ret)

\* resolveName after validation: namehash, registry.resolver, resolver.addr
ResolveNameWork(name, w) ==
  LET nameHash == namehash(name)
      hashed == <<On("namehash", nameHash.node)>>
      asked == hashed \o <<On("registry.resolver", nameHash.node)>>
      read == asked \o <<On("resolver.addr", nameHash.node)>>
  IN IF nameHash.kind = "throw" THEN Outcome(hashed, nameHash)
     ELSE IF w.registry = "reject" THEN Outcome(asked, Throw("call rejected"))
     ELSE IF w.registry = "zero" THEN Outcome(asked, Throw("No resolver set"))
     ELSE IF w.resolver = "reject" THEN Outcome(read, Throw("call rejected"))
     ELSE IF w.resolver = "zero" THEN Outcome(read, Throw("No address set"))
     ELSE Outcome(read, Return(SetAddress))

\* getTextRecord after validation: namehash, resolver.text
GetTextRecordWork(name, w) ==
  LET nameHash == namehash(name)
      hashed == <<On("namehash", nameHash.node)>>
      read == hashed \o <<On("resolver.text", nameHash.node)>>
  IN IF nameHash.kind = "throw" THEN Outcome(hashed, nameHash)
     ELSE IF w.resolver = "reject" THEN Outcome(read, Throw("call rejected"))
     ELSE Outcome(read, Return(IF w.resolver = "zero" THEN EmptyText ELSE TextValue))

\* getContentHash after validation: namehash, resolver.contenthash, hexlify
GetContentHashWork(name, w) ==
  LET nameHash == namehash(name)
      hashed == <<On("namehash", nameHash.node)>>
      read == hashed \o <<On("resolver.contenthash", nameHash.node)>>
  IN IF nameHash.kind = "throw" THEN Outcome(hashed, nameHash)
     ELSE IF w.resolver = "reject" THEN Outcome(read, Throw("call rejected"))
     ELSE Outcome(read, Return(IF w.resolver = "zero" THEN EmptyHex ELSE ContentHash))

\* setTextRecord after validation: wallet, namehash, registry.owner, the
\* ownership test, setText, tx.wait
SetTextRecordWork(name, w) ==
  LET nameHash == namehash(name)
      signed == <<Did("Wallet")>>
      hashed == signed \o <<On("namehash", nameHash.node)>>
      asked == hashed \o <<On("registry.owner", nameHash.node)>>
      sent == asked \o <<On("resolver.setText", nameHash.node)>>
      waited == sent \o <<Did("tx.wait")>>
  IN IF w.tx = "badKey" THEN Outcome(signed, Throw("invalid private key"))
     ELSE IF nameHash.kind = "throw" THEN Outcome(hashed, nameHash)
     ELSE IF w.registry = "reject" THEN Outcome(asked, Throw("call rejected"))
     ELSE IF w.registry = "zero" THEN Outcome(asked, Throw("You don't own"))
     ELSE IF w.tx = "sendFails" THEN Outcome(sent, Throw("transaction refused"))
     ELSE IF w.tx = "reverts" THEN Outcome(waited, Throw("transaction reverted"))
     ELSE Outcome(waited, Return(TxResponse))

\* createSubdomain after validation of the parent: wallet, namehash(parent),
\* registry.owner, the ownership test, the label hash, setSubnodeOwner, tx.wait
CreateSubdomainWork(parentName, subdomainName, w) ==
  LET parentHash == namehash(parentName)
      labelBytes == toUtf8Bytes(subdomainName)
      labelHash == keccak256(labelBytes.data)
      signed == <<Did("Wallet")>>
      hashed == signed \o <<On("namehash", parentHash.node)>>
      asked == hashed \o <<On("registry.owner", parentHash.node)>>
      sent == asked \o <<Event("registry.setSubnodeOwner", parentHash.node, labelHash)>>
      waited == sent \o <<Did("tx.wait")>>
  IN IF w.tx = "badKey" THEN Outcome(signed, Throw("invalid private key"))
     ELSE IF parentHash.kind = "throw" THEN Outcome(hashed, parentHash)
     ELSE IF w.registry = "reject" THEN Outcome(asked, Throw("call rejected"))
     ELSE IF w.registry = "zero" THEN Outcome(asked, Throw("You don't own"))
     ELSE IF ~labelBytes.ok THEN Outcome(asked, Throw("invalid utf-8 string"))
     ELSE IF w.tx = "sendFails" THEN Outcome(sent, Throw("transaction refused"))
     ELSE IF w.tx = "reverts" THEN Outcome(waited, Throw("transaction reverted"))
     ELSE Outcome(waited, Return(TxResponse))

ResolveName(project, name, w) ==
  Guarded(project, name, MsgInvalidName, ResolveNameWork(name, w))

GetTextRecord(project, name, w) ==
  Guarded(project, name, MsgInvalidName, GetTextRecordWork(name, w))

GetContentHash(project, name, w) ==
  Guarded(project, name, MsgInvalidName, GetContentHashWork(name, w))

SetTextRecord(project, name, w) ==
  Guarded(project, name, MsgInvalidName, SetTextRecordWork(name, w))

CreateSubdomain(project, parentName, subdomainName, w) ==
  Guarded(project, parentName, MsgInvalidParent,
          CreateSubdomainWork(parentName, subdomainName, w))

\* ProductionENSManager.resolveENS and getTextRecord: the rate limiter, then
\* the validator, then the cache, then on a miss this.namehash (a read of the
\* cache that hands back a Promise), the resolver call and cache.set
ManagerLookup(manager, name, w, method, missing, found) ==
  IF ~manager.cache THEN Outcome(<<>>, Throw("TypeError"))   \* this.rateLimiter is null
  ELSE LET validation == ManagerValidateENSName(name)
           limited == <<Did("rateLimiter.checkLimit")>>
           validated == limited \o <<Did("validateENSName")>>
           looked == validated \o <<Did("cache.get")>>
           hashed == ManagerNamehash(manager, name)
           read == looked \o <<Did("this.namehash"), Did(method)>>
           stored == read \o <<Did("cache.set")>>
       IN IF w.redis = "limited" THEN Outcome(limited, Throw("Rate limit exceeded"))
          ELSE IF ~validation.valid
            THEN Outcome(validated, ThrowJoined(MsgInvalidName, validation.errors))
          ELSE IF w.redis = "hit" THEN Outcome(looked, Return(found))
          ELSE IF hashed.kind = "throw" THEN Outcome(looked, hashed)
          ELSE IF w.resolver = "reject" THEN Outcome(read, Throw("call rejected"))
          ELSE Outcome(stored, Return(IF w.resolver = "zero" THEN missing ELSE found))

ManagerResolveENS(manager, name, w) ==
  ManagerLookup(manager, name, w, "resolver.addr", AddressZero, SetAddress)

ManagerGetTextRecord(manager, name, w) ==
  ManagerLookup(manager, name, w, "resolver.text", EmptyText, TextValue)

\* the callback of ENSProject.batchResolve:
\* try { address = await this.resolveName(name); return { name, address, success: true } }
\* catch (error) { return { name, error: error.message, success: false } }
ProjectEntry(name, inner) ==
  IF inner.kind = "throw"
    THEN [name |-> name, address |-> JsUndefined, error |-> MessageOf(inner.errors),
          success |-> FALSE]
    ELSE [name |-> name, address |-> ValueOf(inner.node), error |-> JsUndefined,
          success |-> TRUE]

RECURSIVE EventsOfAll(_, _, _, _)
\* what the resolveName calls of one batch have called, name after name
EventsOfAll(project, names, w, k) ==
  IF k > Len(names) THEN <<>>
  ELSE ResolveName(project, names[k], w).events \o EventsOfAll(project, names, w, k + 1)

\* ENSProject.batchResolve(names): the isInitialized guard, then one
\* resolveName per name under Promise.allSettled
ProjectBatchResolve(project, names, w) ==
  IF ~project.isInitialized THEN Outcome(<<>>, Throw(MsgNotInitialized))
  ELSE Outcome(EventsOfAll(project, names, w, 1),
               Return([i \in 1..Len(names) |->
                         ProjectEntry(names[i], ResolveName(project, names[i], w).ret)]))

\* the six text keys getProfile reads
ProfileTextKeys ==
  <<"description", "url", "email", "com.twitter", "com.github", "avatar">>

\* settled value of promise.catch(() => fallback)
OrElse(result, fallback) == IF result.kind = "throw" THEN fallback ELSE ValueOf(result.node)

\* ENSProject.getProfile(name): the isInitialized guard, then resolveName and
\* registry.owner(namehash(name)), the six getTextRecord calls, getContentHash,
\* each with its own catch
GetProfile(project, name, w) ==
  IF ~project.isInitialized THEN Outcome(<<>>, Throw(MsgNotInitialized))
  ELSE LET resolved == ResolveName(project, name, w)
           nameHash == namehash(name)
           text == GetTextRecord(project, name, w)
           content == GetContentHash(project, name, w)
           started == resolved.events \o <<On("namehash", nameHash.node)>>
           asked == started \o <<On("registry.owner", nameHash.node)>>
           texts == [k \in 1..(Len(ProfileTextKeys) * Len(text.events)) |->
                       text.events[((k - 1) % Len(text.events)) + 1]]
           owner == IF w.registry = "reject" THEN JsNull
                    ELSE ValueOf(IF w.registry = "zero" THEN AddressZero ELSE SetAddress)
           textValue == OrElse(text.ret, ValueOf(EmptyText))
       IN IF nameHash.kind = "throw" THEN Outcome(started, nameHash)
          ELSE Outcome(asked \o texts \o content.events,
                       Return([name |-> name,
                               address |-> OrElse(resolved.ret, JsNull),
                               owner |-> owner,
                               textRecords |-> IF textValue = ValueOf(EmptyText)
                                                 THEN <<>> ELSE ProfileTextKeys,
                               contentHash |-> OrElse(content.ret, JsNull)]))

\* names a batch handed to ENSProject is made of
ProjectBatchNames ==
  {JsString(Str(<<"v", "i", "t", "a", "l", "i", "k">>)), JsString(Str(<<"a", "b">>)),
   [type |-> "number", str |-> <<>>]}

\* an array passed as argument
JsArray(elements) == [type |-> "array", str |-> elements]

SeqsUpTo(S, n) == UNION {[1..k -> S] : k \in 0..n}

\* names handed to ENSProject and to the manager
ProjectStrings ==
  {<<>>,
   Str(<<"a", "b">>),
   Str(<<"e", "t", "h">>),
   Str(<<"m", "y", "hyphen", "hyphen", "n", "a", "m", "e">>),
   Str(<<"v", "i", "t", "a", "l", "i", "k">>),
   Str(<<"v", "i", "t", "a", "l", "i", "k", "dot", "e", "t", "h">>),
   Str(<<"m", "y", "c", "o", "m", "p", "a", "n", "y">>),
   Str(<<"m", "y", "c", "o", "m", "p", "a", "n", "y", "dot", "e", "t", "h">>)}

ProjectArgs == {JsString(s) : s \in ProjectStrings} \cup NonStrings

\* the label of the subdomain that createSubdomain is asked for
SubdomainLabels == {Str(<<"d", "e", "v">>)}

\* one call has been made: what it was given, what it met, what it did
Perform(op, v, w, out) ==
  /\ call' = op
  /\ arg' = v
  /\ world' = w
  /\ events' = out.events
  /\ ret' = out.ret

\* ENSProject.initialize: the provider and the two contract handles are made,
\* getBlockNumber() may reject; isInitialized is set after it and never cleared
ProjectInitialize ==
  /\ call = "none"
  /\ \E outcome \in {"blockNumberFails", "ok"} :
      /\ call' = "ENSProject.initialize"
      /\ arg' = JsString(<<>>)
      /\ proj' = [provider |-> TRUE, contracts |-> TRUE,
                  isInitialized |-> proj.isInitialized \/ outcome = "ok"]
      /\ ret' = IF outcome = "ok" THEN Return(NoData) ELSE Throw(outcome)
      /\ UNCHANGED <<mgr, world, events, reg, rt, extra>>

CallResolveName ==
  /\ call = "none"
  /\ \E v \in ProjectArgs, w \in Worlds :
       Perform("ENSProject.resolveName", v, w, ResolveName(proj, v, w))
  /\ UNCHANGED <<mgr, proj, reg, rt, extra>>

CallGetTextRecord ==
  /\ call = "none"
  /\ \E v \in ProjectArgs, w \in Worlds :
       Perform("ENSProject.getTextRecord", v, w, GetTextRecord(proj, v, w))
  /\ UNCHANGED <<mgr, proj, reg, rt, extra>>

CallGetContentHash ==
  /\ call = "none"
  /\ \E v \in ProjectArgs, w \in Worlds :
       Perform("ENSProject.getContentHash", v, w, GetContentHash(proj, v, w))
  /\ UNCHANGED <<mgr, proj, reg, rt, extra>>

CallSetTextRecord ==
  /\ call = "none"
  /\ \E v \in ProjectArgs, w \in Worlds :
       Perform("ENSProject.setTextRecord", v, w, SetTextRecord(proj, v, w))
  /\ UNCHANGED <<mgr, proj, reg, rt, extra>>

CallCreateSubdomain ==
  /\ call = "none"
  /\ \E v \in ProjectArgs, sub \in SubdomainLabels, w \in Worlds :
       Perform("ENSProject.createSubdomain", v, w, CreateSubdomain(proj, v, sub, w))
  /\ UNCHANGED <<mgr, proj, reg, rt, extra>>

CallManagerResolveENS ==
  /\ call = "none"
  /\ \E v \in ProjectArgs, w \in Worlds :
       Perform("ProductionENSManager.resolveENS", v, w, ManagerResolveENS(mgr, v, w))
  /\ UNCHANGED <<mgr, proj, reg, rt, extra>>

CallManagerGetTextRecord ==
  /\ call = "none"
  /\ \E v \in ProjectArgs, w \in Worlds :
       Perform("ProductionENSManager.getTextRecord", v, w, ManagerGetTextRecord(mgr, v, w))
  /\ UNCHANGED <<mgr, proj, reg, rt, extra>>

CallBatchResolve ==
  /\ call = "none"
  /\ \E names \in SeqsUpTo(ProjectBatchNames, MaxBatch), w \in Worlds :
       Perform("ENSProject.batchResolve", JsArray(names), w,
               ProjectBatchResolve(proj, names, w))
  /\ UNCHANGED <<mgr, proj, reg, rt, extra>>

CallGetProfile ==
  /\ call = "none"
  /\ \E v \in ProjectArgs, w \in Worlds :
       Perform("ENSProject.getProfile", v, w, GetProfile(proj, v, w))
  /\ UNCHANGED <<mgr, proj, reg, rt, extra>>

ProjectNext ==
  \/ ProjectInitialize
  \/ CallBatchResolve
  \/ CallGetProfile
  \/ CallResolveName
  \/ CallGetTextRecord
  \/ CallGetContentHash
  \/ CallSetTextRecord
  \/ CallCreateSubdomain
  \/ ManagerInitialize
  \/ CallManagerResolveENS
  \/ CallManagerGetTextRecord
  \/ NextCall

\* ENSProject and the request methods of ProductionENSManager
SpecProject == Init /\ [][ProjectNext]_vars

----------------------------------------------------------------------------
(* The seed script hardhat/scripts/01-seed-ens.js *)

\* process.env.SEED_NAME || 'kenya-dev-series'
DefaultSeedLabel ==
  Str(<<"k", "e", "n", "y", "a", "hyphen", "d", "e", "v", "hyphen",
        "s", "e", "r", "i", "e", "s">>)

\* the four text records the script writes
SeedTextCount == Len(<<"email", "url", "org.telegram", "com.twitter">>)

\* main(): the label hash, the hand-computed eth node and the node of the full
\* name, then owner(ethNode), the impersonation, setSubnodeOwner(ethNode,
\* labelHash, user), resolver(node), setResolver(node) unless already set,
\* setAddr(node) and the setText(node) calls, each transaction awaited
SeedMain(seedName, w) ==
  LET testLabel == IF Truthy(seedName) THEN seedName.str ELSE DefaultSeedLabel
      fullName == testLabel \o Str(<<"dot", "e", "t", "h">>)
      labelBytes == toUtf8Bytes(testLabel)
      labelHash == keccak256(labelBytes.data)
      ethLabelHash == keccak256(toUtf8Bytes(Str(<<"e", "t", "h">>)).data)
      ethNode == keccak256(concat(arrayify(HashZero), arrayify(ethLabelHash)))
      node == SeedNamehash(JsString(fullName)).node
      owned == <<On("registry.owner", ethNode)>>
      impersonated == owned \o <<Did("hardhat_impersonateAccount"), Did("hardhat_setBalance")>>
      sent == impersonated \o <<Event("registry.setSubnodeOwner", ethNode, labelHash)>>
      created == sent \o <<Did("tx.wait")>>
      asked == created \o <<On("registry.resolver", node)>>
      pointed == IF w.resolver = "set" THEN asked
                 ELSE asked \o <<On("registry.setResolver", node), Did("tx.wait")>>
      addressed == pointed \o <<On("resolver.setAddr", node), Did("tx.wait")>>
      texts == [k \in 1..(2 * SeedTextCount) |->
                  IF k % 2 = 1 THEN On("resolver.setText", node) ELSE Did("tx.wait")]
  IN IF w.tx = "badKey" THEN Outcome(<<>>, Throw("PRIVATE_KEY not set in .env"))
     ELSE IF ~labelBytes.ok THEN Outcome(<<>>, Throw("invalid utf-8 string"))
     ELSE IF w.registry = "reject" THEN Outcome(owned, Throw("call rejected"))
     ELSE IF w.tx = "sendFails" THEN Outcome(sent, Throw("transaction refused"))
     ELSE IF w.resolver = "reject" THEN Outcome(asked, Throw("call rejected"))
     ELSE IF w.tx = "reverts"
       THEN Outcome(IF w.resolver = "set" THEN addressed ELSE pointed,
                    Throw("transaction reverted"))
     ELSE Outcome(addressed \o texts, Return(NoData))

\* values of SEED_NAME: unset, empty, one label, a label with a dot in it
SeedNames ==
  {[type |-> "undefined", str |-> <<>>],
   JsString(<<>>),
   JsString(Str(<<"a", "b", "c">>)),
   JsString(Str(<<"m", "y", "hyphen", "hyphen", "n", "a", "m", "e">>)),
   JsString(Str(<<"a", "dot", "b">>))}

CallSeedMain ==
  /\ call = "none"
  /\ \E v \in SeedNames, w \in Worlds : Perform("seed.main", v, w, SeedMain(v, w))
  /\ UNCHANGED <<mgr, proj, reg, rt, extra>>

SeedNext ==
  \/ CallSeedMain
  \/ NextCall

\* the seed script alone
SpecSeed == Init /\ [][SeedNext]_vars

----------------------------------------------------------------------------
(* Actions of registerDomain *)

\* registerDomain(name, owner) is called
RegisterDomain ==
  /\ reg.pc = "idle"
  /\ call = "none"
  /\ \E name \in RegisterNames, owner \in Owners :
       reg' = [NoRegistration EXCEPT !.pc = "available", !.name = name, !.owner = owner]
  /\ UNCHANGED <<call, arg, ret, mgr, proj, world, events, rt, extra>>

\* step 1: checkAvailability(name); the method throws unless it says available
StepAvailable ==
  /\ reg.pc = "available"
  /\ \E answer \in {"true", "false", "reject"} :
       reg' = IF Available(answer)
              THEN Proceed(answer, Args(reg.name, "", ""), "rentPrice")
              ELSE Abort(answer, Args(reg.name, "", ""), "not available for registration")
  /\ UNCHANGED <<call, arg, ret, mgr, proj, world, events, rt, extra>>

\* step 2: getRegistrationCost: rentPrice, then getGasPrice
StepRentPrice ==
  /\ reg.pc = "rentPrice"
  /\ \E answer \in {"ok", "reject"} :
       reg' = IF answer = "ok"
              THEN Proceed(answer, Args(reg.name, "", ""), "getGasPrice")
              ELSE Abort(answer, Args(reg.name, "", ""), "Cost estimation failed")
  /\ UNCHANGED <<call, arg, ret, mgr, proj, world, events, rt, extra>>

StepGasPrice ==
  /\ reg.pc = "getGasPrice"
  /\ \E answer \in {"ok", "reject"} :
       reg' = IF answer = "ok"
              THEN Proceed(answer, NoArgs, "makeCommitment")
              ELSE Abort(answer, NoArgs, "Cost estimation failed")
  /\ UNCHANGED <<call, arg, ret, mgr, proj, world, events, rt, extra>>

\* step 3: salt = randomBytes(32); makeCommitment(name, owner, salt)
StepMakeCommitment ==
  /\ reg.pc = "makeCommitment"
  /\ \E salt \in Salts, answer \in {"ok", "reject"} :
       reg' = IF answer = "ok"
              THEN [Proceed(answer, Args(reg.name, reg.owner, salt), "commit")
                      EXCEPT !.salt = salt]
              ELSE [Abort(answer, Args(reg.name, reg.owner, salt), "call rejected")
                      EXCEPT !.salt = salt]
  /\ UNCHANGED <<call, arg, ret, mgr, proj, world, events, rt, extra>>

\* commit(commitment): the transaction is sent, or refused
StepCommit ==
  /\ reg.pc = "commit"
  /\ \E answer \in {"ok", "reject"} :
       reg' = IF answer = "ok"
              THEN Proceed(answer, reg.log[Len(reg.log)].args, "commit.wait")
              ELSE Abort(answer, reg.log[Len(reg.log)].args, "transaction refused")
  /\ UNCHANGED <<call, arg, ret, mgr, proj, world, events, rt, extra>>

\* commitTx.wait(): the commit is confirmed, or it reverted
StepCommitWait ==
  /\ reg.pc = "commit.wait"
  /\ \E answer \in {"ok", "reject"} :
       reg' = IF answer = "ok"
              THEN [Proceed(answer, NoArgs, "minCommitmentAge") EXCEPT !.confirmedAt = reg.now]
              ELSE Abort(answer, NoArgs, "transaction reverted")
  /\ UNCHANGED <<call, arg, ret, mgr, proj, world, events, rt, extra>>

\* step 4: minAge = minCommitmentAge(); the timer is set for minAge * 1000 ms
StepMinCommitmentAge ==
  /\ reg.pc = "minCommitmentAge"
  /\ \E answer \in {"ok", "reject"}, age \in CommitmentAges :
       reg' = IF answer = "ok"
              THEN [Proceed(answer, NoArgs, "register")
                      EXCEPT !.minAge = age, !.due = reg.now + CommitmentDelay(age)]
              ELSE Abort(answer, NoArgs, "call rejected")
  /\ UNCHANGED <<call, arg, ret, mgr, proj, world, events, rt, extra>>

\* step 5: the timer has fired; register(name, owner, duration, salt) is sent
StepRegister ==
  /\ reg.pc = "register"
  /\ reg.now >= reg.due
  /\ \E answer \in {"ok", "reject"} :
       reg' = IF answer = "ok"
              THEN [Proceed(answer, Args(reg.name, reg.owner, reg.salt), "register.wait")
                      EXCEPT !.sentAt = reg.now]
              ELSE [Abort(answer, Args(reg.name, reg.owner, reg.salt), "transaction refused")
                      EXCEPT !.sentAt = reg.now]
  /\ UNCHANGED <<call, arg, ret, mgr, proj, world, events, rt, extra>>

\* registerTx.wait(): the registration is mined, or it reverted
StepRegisterWait ==
  /\ reg.pc = "register.wait"
  /\ \E answer \in {"ok", "reject"} :
       reg' = IF answer = "ok"
              THEN [Proceed(answer, NoArgs, "resolved") EXCEPT !.pc = "resolved"]
              ELSE Abort(answer, NoArgs, "transaction reverted")
  /\ UNCHANGED <<call, arg, ret, mgr, proj, world, events, rt, extra>>

\* time passes while the call is in progress
Tick ==
  /\ reg.pc \notin Settled \cup {"idle"}
  /\ reg.now < MaxTicks * TickMs
  /\ reg' = [reg EXCEPT !.now = @ + TickMs]
  /\ UNCHANGED <<call, arg, ret, mgr, proj, world, events, rt, extra>>

\* the caller has its result and may call again
RegisterSettled ==
  /\ reg.pc \in Settled
  /\ reg' = NoRegistration
  /\ UNCHANGED <<call, arg, ret, mgr, proj, world, events, rt, extra>>

RegisterNext ==
  \/ RegisterDomain
  \/ StepAvailable
  \/ StepRentPrice
  \/ StepGasPrice
  \/ StepMakeCommitment
  \/ StepCommit
  \/ StepCommitWait
  \/ StepMinCommitmentAge
  \/ StepRegister
  \/ StepRegisterWait
  \/ Tick
  \/ RegisterSettled

\* registerDomain alone
SpecRegister == Init /\ [][RegisterNext]_vars

----------------------------------------------------------------------------
(* Actions of retry *)

\* retry(operation, maxRetries, delay) is called: lastError is undefined, i = 0
Retry ==
  /\ rt.pc = "idle"
  /\ call = "none"
  /\ \E maxRetries \in 0..MaxAttempts, delay \in RetryDelays :
       rt' = [NoRetry EXCEPT !.pc = "loop", !.maxRetries = maxRetries,
                             !.first = delay, !.delay = delay]
  /\ UNCHANGED <<call, arg, ret, mgr, proj, world, events, reg, extra>>

\* i < maxRetries: operation() is invoked and awaited
Invoke ==
  /\ rt.pc = "loop"
  /\ rt.i < rt.maxRetries
  /\ rt' = [rt EXCEPT !.pc = "running", !.calls = @ + 1]
  /\ UNCHANGED <<call, arg, ret, mgr, proj, world, events, reg, extra>>

\* the loop is over: throw lastError
Exhausted ==
  /\ rt.pc = "loop"
  /\ ~(rt.i < rt.maxRetries)
  /\ rt' = [rt EXCEPT !.pc = "rejected", !.settled = rt.lastError]
  /\ UNCHANGED <<call, arg, ret, mgr, proj, world, events, reg, extra>>

\* return await operation(): the attempt succeeded
Succeed ==
  /\ rt.pc = "running"
  /\ rt' = [rt EXCEPT !.pc = "resolved", !.settled = rt.calls]
  /\ UNCHANGED <<call, arg, ret, mgr, proj, world, events, reg, extra>>

\* catch (error): lastError = error, then sleep(delay) unless it was the last round
Fail ==
  /\ rt.pc = "running"
  /\ rt' = IF SleepsAfter(rt.i, rt.maxRetries)
           THEN [rt EXCEPT !.pc = "sleeping", !.lastError = rt.calls,
                           !.sleeps = Append(@, rt.delay)]
           ELSE [rt EXCEPT !.pc = "loop", !.lastError = rt.calls, !.i = @ + 1]
  /\ UNCHANGED <<call, arg, ret, mgr, proj, world, events, reg, extra>>

\* the sleep is over: delay *= 2, i++
Wake ==
  /\ rt.pc = "sleeping"
  /\ rt' = [rt EXCEPT !.pc = "loop", !.delay = DelayDoubled(@), !.i = @ + 1]
  /\ UNCHANGED <<call, arg, ret, mgr, proj, world, events, reg, extra>>

\* the caller has the result or the error and may call again
RetrySettled ==
  /\ rt.pc \in Settled
  /\ rt' = NoRetry
  /\ UNCHANGED <<call, arg, ret, mgr, proj, world, events, reg, extra>>

RetryNext ==
  \/ Retry
  \/ Invoke
  \/ Exhausted
  \/ Succeed
  \/ Fail
  \/ Wake
  \/ RetrySettled

\* retry alone
SpecRetry == Init /\ [][RetryNext]_vars

----------------------------------------------------------------------------
(* Actions of RateLimiter.checkLimit *)

LimiterUnchanged == UNCHANGED <<call, arg, ret, mgr, proj, world, events, reg, rt,
                                batch, mob, inp>>

\* new RateLimiter(redisClient, maxRequests, windowMs)
NewRateLimiter ==
  /\ ~rl.made
  /\ \E m \in LimiterMaxima, w \in WindowSizes :
       rl' = [rl EXCEPT !.made = TRUE, !.maxRequests = m, !.windowMs = w]
  /\ LimiterUnchanged

\* Date.now() moves on
ClockTick ==
  /\ rl.made
  /\ rl.clock < MaxClock
  /\ rl' = [rl EXCEPT !.clock = @ + 1]
  /\ LimiterUnchanged

\* checkLimit(identifier) up to its first await: now is read, zremrangebyscore sent
CheckLimit(c) ==
  /\ rl.made
  /\ rl.calls[c].pc = "idle"
  /\ rl.started < MaxCalls
  /\ rl' = [rl EXCEPT !.calls[c] = [IdleCheck EXCEPT !.pc = "zremrangebyscore",
                                                     !.now = rl.clock],
                      !.started = @ + 1]
  /\ LimiterUnchanged

\* await this.redis.zremrangebyscore(key, '-inf', windowStart)
Zremrangebyscore(c) ==
  /\ rl.calls[c].pc = "zremrangebyscore"
  /\ rl' = [rl EXCEPT !.zset = RemoveThrough(@, rl.calls[c].now - rl.windowMs),
                      !.calls[c].pc = "zcard"]
  /\ LimiterUnchanged

\* const requestCount = await this.redis.zcard(key), then the limit test
Zcard(c) ==
  /\ rl.calls[c].pc = "zcard"
  /\ LET requestCount == Cardinality(rl.zset) IN
       rl' = IF LimitReached(requestCount, rl.maxRequests)
               THEN [rl EXCEPT !.calls[c].requestCount = requestCount,
                               !.calls[c].pc = "thrown",
                               !.calls[c].error = "Rate limit exceeded"]
               ELSE [rl EXCEPT !.calls[c].requestCount = requestCount,
                               !.calls[c].pc = "zadd"]
  /\ LimiterUnchanged

\* await this.redis.zadd(key, now, now.toString())
Zadd(c) ==
  /\ rl.calls[c].pc = "zadd"
  /\ rl' = [rl EXCEPT !.zset = ZaddMember(@, rl.calls[c].now),
                      !.calls[c].recorded = TRUE,
                      !.calls[c].pc = "expire"]
  /\ LimiterUnchanged

\* await this.redis.expire(key, Math.ceil(this.windowMs / 1000)); return true
Expire(c) ==
  /\ rl.calls[c].pc = "expire"
  /\ rl' = [rl EXCEPT !.ttl = ExpireSeconds(rl.windowMs),
                      !.calls[c].pc = "returned",
                      !.granted = Append(@, rl.calls[c].now)]
  /\ LimiterUnchanged

\* a redis command rejects: the catch block logs and rethrows
RedisError(c) ==
  /\ rl.calls[c].pc \in {"zremrangebyscore", "zcard", "zadd", "expire"}
  /\ rl' = [rl EXCEPT !.calls[c].pc = "thrown", !.calls[c].error = "redis"]
  /\ LimiterUnchanged

\* the caller has its answer; the client may call again
CheckSettled(c) ==
  /\ rl.calls[c].pc \in {"returned", "thrown"}
  /\ rl' = [rl EXCEPT !.calls[c] = IdleCheck]
  /\ LimiterUnchanged

LimiterNext ==
  \/ NewRateLimiter
  \/ ClockTick
  \/ \E c \in Clients : CheckLimit(c)
  \/ \E c \in Clients : Zremrangebyscore(c)
  \/ \E c \in Clients : Zcard(c)
  \/ \E c \in Clients : Zadd(c)
  \/ \E c \in Clients : Expire(c)
  \/ \E c \in Clients : RedisError(c)
  \/ \E c \in Clients : CheckSettled(c)

\* the rate limiter alone
SpecLimiter == Init /\ [][LimiterNext]_vars

----------------------------------------------------------------------------
(* batchResolve of ProductionENSManager and of ENSMobileManager *)

\* the callback handed to names.map, settled by Promise.allSettled:
\* try { return await this.resolveENS(name) } catch (error) { return { error: error.message } }
SettleCaught(inner) ==
  [status |-> "fulfilled",
   value |-> IF inner.kind = "throw" THEN ErrorObject(inner.errors) ELSE ValueOf(inner.node)]

\* results.map((result, index) => ({ name, address, error, success }))
EntryOf(name, result) ==
  [name |-> name,
   address |-> IF result.status = "fulfilled" THEN result.value ELSE JsNull,
   error |-> IF result.status = "rejected" THEN result.value ELSE JsNull,
   success |-> result.status = "fulfilled"]

BatchEntries(names, inner) ==
  [i \in 1..Len(names) |-> EntryOf(names[i], SettleCaught(inner[i]))]

MsgManagerNotInitialized == "ENS Manager not initialized"

\* ENSMobileManager.resolveENS: the guard, the cache, the validator, resolver.addr;
\* w.redis tells whether the Map holds a fresh entry for the name
MobileResolveENS(manager, name, w) ==
  IF ~manager.isInitialized THEN Throw(MsgManagerNotInitialized)
  ELSE IF w.redis = "hit" THEN Return(SetAddress)
  ELSE LET validation == validateENSName(name) IN
    IF ~validation.valid THEN ThrowJoined(MsgInvalidName, validation.errors)
    ELSE IF w.resolver = "reject" THEN Throw("call rejected")
    ELSE Return(IF w.resolver = "zero" THEN AddressZero ELSE SetAddress)

\* what a batch call settles with
BatchReturn(names, ws, inner) ==
  [pc |-> "settled", kind |-> "return", names |-> names, worlds |-> ws,
   inner |-> inner, entries |-> BatchEntries(names, inner), error |-> "none"]

BatchThrow(names, ws, message) ==
  [pc |-> "settled", kind |-> "throw", names |-> names, worlds |-> ws,
   inner |-> <<>>, entries |-> <<>>, error |-> message]

\* ProductionENSManager.batchResolve(names, clientId)
ManagerBatchResolve(manager, names, ws, limited) ==
  IF ~manager.cache THEN BatchThrow(names, ws, "TypeError")   \* this.rateLimiter is null
  ELSE IF limited THEN BatchThrow(names, ws, "Rate limit exceeded")
  ELSE BatchReturn(names, ws,
         [i \in 1..Len(names) |-> ManagerResolveENS(manager, names[i], ws[i]).ret])

\* ENSMobileManager.batchResolve(names)
MobileBatchResolve(manager, names, ws) ==
  IF ~manager.isInitialized THEN BatchThrow(names, ws, MsgManagerNotInitialized)
  ELSE BatchReturn(names, ws,
         [i \in 1..Len(names) |-> MobileResolveENS(manager, names[i], ws[i])])

\* names and worlds a batch is made of
BatchNames ==
  {JsString(Str(<<"v", "i", "t", "a", "l", "i", "k">>)), JsString(Str(<<"a", "b">>))}

BatchWorlds ==
  [registry : {"set"}, resolver : {"set", "reject"}, tx : {"ok"}, redis : {"hit", "miss"}]


----------------------------------------------------------------------------
(* Actions of batchResolve *)

BatchUnchanged == UNCHANGED <<call, arg, ret, proj, world, events, reg, rt, rl, inp>>

\* ENSMobileManager.initialize: nothing in it rejects (loadCache swallows its errors)
MobileInitialize ==
  /\ batch.pc = "none"
  /\ ~mob.isInitialized
  /\ mob' = [mob EXCEPT !.isInitialized = TRUE]
  /\ UNCHANGED <<mgr, batch>>
  /\ BatchUnchanged

CallManagerBatchResolve ==
  /\ call = "none"
  /\ batch.pc = "none"
  /\ \E names \in SeqsUpTo(BatchNames, MaxBatch), limited \in BOOLEAN :
       \E ws \in [1..Len(names) -> BatchWorlds] :
         batch' = ManagerBatchResolve(mgr, names, ws, limited)
  /\ UNCHANGED <<mgr, mob>>
  /\ BatchUnchanged

CallMobileBatchResolve ==
  /\ batch.pc = "none"
  /\ \E names \in SeqsUpTo(BatchNames, MaxBatch) :
       \E ws \in [1..Len(names) -> BatchWorlds] :
         batch' = MobileBatchResolve(mob, names, ws)
  /\ UNCHANGED <<mgr, mob>>
  /\ BatchUnchanged

\* the caller has the batch result
BatchSettled ==
  /\ batch.pc = "settled"
  /\ batch' = NoBatch
  /\ UNCHANGED <<mgr, mob>>
  /\ BatchUnchanged

BatchNext ==
  \/ ManagerInitialize
  \/ NextCall
  \/ MobileInitialize
  \/ CallManagerBatchResolve
  \/ CallMobileBatchResolve
  \/ BatchSettled

\* the two batchResolve methods alone
SpecBatch == Init /\ [][BatchNext]_vars

----------------------------------------------------------------------------
(* Actions of ENSMobileManager.getTextRecord and setTextRecord *)

MobileUnchanged ==
  UNCHANGED <<call, arg, ret, mgr, proj, world, events, reg, rt, rl, batch, inp>>

\* no setTextRecord call is between its start and its end
NoWriteInProgress == mob.set.pc \in {"idle", "returned", "thrown"}

\* the value a getTextRecord that completes now has to return
ExpectedNow == IF NoWriteInProgress THEN mob.confirmed ELSE 0

\* connectWallet: the stored private key may be missing
MobileConnectWallet ==
  /\ ~mob.signer
  /\ mob.set.pc = "idle"
  /\ \E found \in BOOLEAN : mob' = [mob EXCEPT !.signer = found]
  /\ MobileUnchanged

\* Date.now() moves on
MobileTick ==
  /\ mob.isInitialized
  /\ mob.clock < MaxMobileTicks * MobileTickMs
  /\ mob' = [mob EXCEPT !.clock = @ + MobileTickMs]
  /\ MobileUnchanged

\* getTextRecord(name, key) up to its first await: the guard, the cache
\* look-up, then resolver.text is called
GetTextRecordStart(r) ==
  /\ mob.get[r].pc = "idle"
  /\ mob.reads < MaxReads
  /\ mob' =
       IF ~mob.isInitialized
         THEN [mob EXCEPT !.get[r].pc = "thrown",
                          !.get[r].error = MsgManagerNotInitialized,
                          !.reads = @ + 1]
       ELSE IF mob.entry.has /\ Fresh(mob.clock, mob.entry.timestamp)
         THEN [mob EXCEPT !.get[r].pc = "returned",
                          !.get[r].value = mob.entry.value,
                          !.get[r].expected = ExpectedNow,
                          !.reads = @ + 1]
       ELSE [mob EXCEPT !.get[r].pc = "resolver.text", !.reads = @ + 1]
  /\ MobileUnchanged

\* the resolver answers resolver.text(nameHash, key) or the call rejects
ResolverText(r) ==
  /\ mob.get[r].pc = "resolver.text"
  /\ \E rejects \in BOOLEAN :
       mob' = IF rejects
                THEN [mob EXCEPT !.get[r].pc = "thrown", !.get[r].error = "call rejected"]
                ELSE [mob EXCEPT !.get[r].pc = "cache.set", !.get[r].value = mob.chain]
  /\ MobileUnchanged

\* the answer has arrived: this.cache.set(cacheKey, { value, timestamp }),
\* then saveCache() writes the Map to AsyncStorage
GetCacheSet(r) ==
  /\ mob.get[r].pc = "cache.set"
  /\ LET entry == EntryAt(mob.get[r].value, mob.clock) IN
       mob' = [mob EXCEPT !.entry = entry, !.stored = entry,
                          !.get[r].pc = "saveCache"]
  /\ MobileUnchanged

\* await this.saveCache(); return value
GetReturn(r) ==
  /\ mob.get[r].pc = "saveCache"
  /\ mob' = [mob EXCEPT !.get[r].pc = "returned", !.get[r].expected = ExpectedNow]
  /\ MobileUnchanged

\* the caller has its answer
GetSettled(r) ==
  /\ mob.get[r].pc \in {"returned", "thrown"}
  /\ mob' = [mob EXCEPT !.get[r] = IdleGet]
  /\ MobileUnchanged

\* setTextRecord(name, key, value) up to its first await: the signer guard,
\* namehash, then registry.owner is called (contracts is {} before initialize)
SetTextRecordStart ==
  /\ mob.set.pc = "idle"
  /\ mob.writes < MaxWrites
  /\ \E v \in TextValues :
       mob' =
         IF ~mob.signer
           THEN [mob EXCEPT !.set = [pc |-> "thrown", value |-> v,
                                     error |-> "Wallet not connected"],
                            !.writes = @ + 1]
         ELSE IF ~mob.isInitialized
           THEN [mob EXCEPT !.set = [pc |-> "thrown", value |-> v, error |-> "TypeError"],
                            !.writes = @ + 1]
         ELSE [mob EXCEPT !.set = [pc |-> "registry.owner", value |-> v, error |-> "none"],
                          !.writes = @ + 1]
  /\ MobileUnchanged

\* await registry.owner(nameHash), await signer.getAddress(), the ownership test
RegistryOwner ==
  /\ mob.set.pc = "registry.owner"
  /\ \E answer \in {"signer", "other", "reject"} :
       mob' = CASE answer = "signer" -> [mob EXCEPT !.set.pc = "setText"]
                [] answer = "other" ->
                     [mob EXCEPT !.set.pc = "thrown",
                                 !.set.error = "You do not own this ENS name"]
                [] OTHER -> [mob EXCEPT !.set.pc = "thrown", !.set.error = "call rejected"]
  /\ MobileUnchanged

\* await resolver.connect(signer).setText(nameHash, key, value): the
\* transaction is sent or the send rejects
SetText ==
  /\ mob.set.pc = "setText"
  /\ \E sent \in BOOLEAN :
       mob' = IF sent THEN [mob EXCEPT !.set.pc = "tx.wait"]
              ELSE [mob EXCEPT !.set.pc = "thrown", !.set.error = "send rejected"]
  /\ MobileUnchanged

\* the transaction is mined: the resolver holds the new value, or it reverts
TxMined ==
  /\ mob.set.pc = "tx.wait"
  /\ \E reverts \in BOOLEAN :
       mob' = IF reverts
                THEN [mob EXCEPT !.set.pc = "thrown", !.set.error = "reverted"]
                ELSE [mob EXCEPT !.chain = mob.set.value, !.set.pc = "cache.set"]
  /\ MobileUnchanged

\* await tx.wait() has returned: this.cache.set(cacheKey, { value, timestamp }),
\* then saveCache()
SetCacheSet ==
  /\ mob.set.pc = "cache.set"
  /\ LET entry == EntryAt(mob.set.value, mob.clock) IN
       mob' = [mob EXCEPT !.entry = entry, !.stored = entry, !.set.pc = "saveCache"]
  /\ MobileUnchanged

\* await this.saveCache(); return tx
SetReturn ==
  /\ mob.set.pc = "saveCache"
  /\ mob' = [mob EXCEPT !.set.pc = "returned", !.confirmed = mob.set.value]
  /\ MobileUnchanged

SetSettled ==
  /\ mob.set.pc \in {"returned", "thrown"}
  /\ mob' = [mob EXCEPT !.set = IdleSet]
  /\ MobileUnchanged

MobileNext ==
  \/ MobileInitialize
  \/ MobileConnectWallet
  \/ MobileTick
  \/ \E r \in Readers : GetTextRecordStart(r)
  \/ \E r \in Readers : ResolverText(r)
  \/ \E r \in Readers : GetCacheSet(r)
  \/ \E r \in Readers : GetReturn(r)
  \/ \E r \in Readers : GetSettled(r)
  \/ SetTextRecordStart
  \/ RegistryOwner
  \/ SetText
  \/ TxMined
  \/ SetCacheSet
  \/ SetReturn
  \/ SetSettled

\* the text-record cache of ENSMobileManager alone
SpecMobile == Init /\ [][MobileNext]_vars

----------------------------------------------------------------------------
(* Actions of ENSDomainInput *)

InputUnchanged ==
  UNCHANGED <<call, arg, ret, mgr, proj, world, events, reg, rt, rl, batch, mob>>

\* handleInputChange(e): the value is lower-cased and stored; a value of three
\* characters or more starts the debounced validation (clearTimeout, then
\* setTimeout) and the suggestions, a shorter one resets validation and
\* suggestions
HandleInputChange ==
  /\ inp.changes < MaxChanges
  /\ \E typed \in InputValues :
       LET newValue == ToLowerCase(typed) IN
         inp' = IF Len(newValue) >= ValidateFromLength
                  THEN [inp EXCEPT !.inputValue = newValue,
                                   !.isValidating = TRUE,
                                   !.timer = TimerFor(newValue, inp.clock, DebounceMs),
                                   !.suggestions = SuggestionsFor(newValue),
                                   !.changes = @ + 1]
                  ELSE [inp EXCEPT !.inputValue = newValue,
                                   !.validation = ResetValidation,
                                   !.suggestions = <<>>,
                                   !.changes = @ + 1]
  /\ InputUnchanged

\* the debounce timer fires: later() runs the callback with the arguments of
\* the call that set the timer
DebounceFires ==
  /\ inp.timer.pending
  /\ inp.clock >= inp.timer.due
  /\ inp' = [inp EXCEPT !.validation = ValidationOf(inp.timer.name),
                        !.isValidating = FALSE,
                        !.timer = NoTimer,
                        !.fired = Append(@, <<inp.timer.name, inp.inputValue>>)]
  /\ InputUnchanged

\* time passes
InputTick ==
  /\ inp.clock < MaxInputTicks * InputTickMs
  /\ inp' = [inp EXCEPT !.clock = @ + InputTickMs]
  /\ InputUnchanged

InputNext ==
  \/ HandleInputChange
  \/ DebounceFires
  \/ InputTick

\* the input component alone
SpecInput == Init /\ [][InputNext]_vars

----------------------------------------------------------------------------
(* Actions of the content-hash helpers *)

CallEncodeContentHash ==
  /\ call = "none"
  /\ \E h \in HashStrings :
       /\ call' = "encodeContentHash"
       /\ arg' = JsString(h)
       /\ ret' = encodeContentHash(h)
  /\ UNCHANGED <<mgr, others>>

CallDecodeContentHash ==
  /\ call = "none"
  /\ \E c \in ContentHashStrings :
       /\ call' = "decodeContentHash"
       /\ arg' = JsString(c)
       /\ ret' = decodeContentHash(c)
  /\ UNCHANGED <<mgr, others>>

\* decodeContentHash(encodeContentHash(h))
CallRoundTrip ==
  /\ call = "none"
  /\ \E h \in HashStrings :
       /\ call' = "decodeContentHash(encodeContentHash)"
       /\ arg' = JsString(h)
       /\ ret' = RoundTrip(h)
  /\ UNCHANGED <<mgr, others>>

ContentHashNext ==
  \/ CallEncodeContentHash
  \/ CallDecodeContentHash
  \/ CallRoundTrip
  \/ NextCall

\* the content-hash helpers alone
SpecContentHash == Init /\ [][ContentHashNext]_vars

Next ==
  \/ EncoderNext
  \/ ValidatorNext
  \/ ProjectNext
  \/ SeedNext
  \/ RegisterNext
  \/ RetryNext
  \/ LimiterNext
  \/ BatchNext
  \/ MobileNext
  \/ InputNext
  \/ ContentHashNext

Spec == Init /\ [][Next]_vars

----------------------------------------------------------------------------
(* The digest behind ethers.utils.keccak256: standard Keccak-256 *)

\* a function over 1..n as a tuple
Force(f) == f \o <<>>
Xor(a, b) == (a + b) % 2
BitAt(A, lx, ly, z) == A[64 * (lx + 5 * ly) + z + 1]
RotationOffsets ==
  << <<0, 36, 3, 41, 18>>, <<1, 44, 10, 45, 2>>, <<62, 6, 43, 15, 61>>,
     <<28, 55, 25, 21, 56>>, <<27, 20, 39, 8, 14>> >>
RoundConstantBits ==
  << {0}, {1, 7, 15}, {1, 3, 7, 15, 63}, {15, 31, 63}, {0, 1, 3, 7, 15}, {0, 31},
     {0, 7, 15, 31, 63}, {0, 3, 15, 63}, {1, 3, 7}, {3, 7}, {0, 3, 15, 31}, {1, 3, 31},
     {0, 1, 3, 7, 15, 31}, {0, 1, 3, 7, 63}, {0, 3, 7, 15, 63}, {0, 1, 15, 63},
     {1, 15, 63}, {7, 63}, {1, 3, 15}, {1, 3, 31, 63}, {0, 7, 15, 31, 63}, {7, 15, 63},
     {0, 31}, {3, 15, 31, 63} >>
\* the five steps of one round of Keccak-f[1600] on a state of 1600 bits,
\* bit z of lane (x, y) at position 64 * (x + 5 * y) + z + 1
Theta(A) ==
  LET C == Force([p \in 1..320 |->
             LET lx == (p - 1) \div 64
                 z == (p - 1) % 64
             IN (BitAt(A, lx, 0, z) + BitAt(A, lx, 1, z) + BitAt(A, lx, 2, z)
                  + BitAt(A, lx, 3, z) + BitAt(A, lx, 4, z)) % 2])
      D == Force([p \in 1..320 |->
             LET lx == (p - 1) \div 64
                 z == (p - 1) % 64
             IN Xor(C[64 * ((lx + 4) % 5) + z + 1],
                    C[64 * ((lx + 1) % 5) + ((z + 63) % 64) + 1])])
  IN Force([p \in 1..1600 |->
       Xor(A[p], D[64 * (((p - 1) \div 64) % 5) + ((p - 1) % 64) + 1])])
RhoPi(A) ==
  Force([p \in 1..1600 |->
    LET lane == (p - 1) \div 64
        z == (p - 1) % 64
        bx == lane % 5
        by == lane \div 5
        ax == (bx + 3 * by) % 5
        ay == bx
    IN BitAt(A, ax, ay, (z + 64 - RotationOffsets[ax + 1][ay + 1]) % 64)])
Chi(B) ==
  Force([p \in 1..1600 |->
    LET lane == (p - 1) \div 64
        z == (p - 1) % 64
        lx == lane % 5
        ly == lane \div 5
    IN Xor(B[p], (1 - BitAt(B, (lx + 1) % 5, ly, z)) * BitAt(B, (lx + 2) % 5, ly, z))])
Iota(A, round) ==
  Force([p \in 1..1600 |->
    IF p <= 64 /\ (p - 1) \in RoundConstantBits[round] THEN 1 - A[p] ELSE A[p]])
RECURSIVE KeccakF(_, _)
\* 24 rounds, each finished before the next begins
KeccakF(A, round) ==
  IF round > 24 THEN A
  ELSE LET after == Iota(Chi(RhoPi(Theta(A))), round)
       IN IF Len(after) = Len(A) THEN KeccakF(after, round + 1) ELSE after
RateBytes == 136
\* bits of the bytes, least significant bit first
BitsOf(bytes) ==
  Force([p \in 1..(8 * Len(bytes)) |->
           (bytes[((p - 1) \div 8) + 1] \div (2 ^ ((p - 1) % 8))) % 2])
\* pad10*1: a first byte 0x01, a last byte 0x80 (one byte 0x81 when they meet)
Pad(bytes) ==
  LET fill == RateBytes - (Len(bytes) % RateBytes)
  IN bytes \o [k \in 1..fill |-> (IF k = 1 THEN 1 ELSE 0) + (IF k = fill THEN 128 ELSE 0)]
RECURSIVE Absorb(_, _, _)
Absorb(A, bits, from) ==
  IF from > Len(bits) THEN A
  ELSE Absorb(KeccakF(Force([p \in 1..1600 |->
                 IF p <= 8 * RateBytes THEN Xor(A[p], bits[from + p - 1]) ELSE A[p]]), 1),
              bits, from + 8 * RateBytes)
\* the first 32 bytes of the state
Squeeze(A) ==
  [k \in 1..32 |->
     A[8 * k - 7] + 2 * A[8 * k - 6] + 4 * A[8 * k - 5] + 8 * A[8 * k - 4]
       + 16 * A[8 * k - 3] + 32 * A[8 * k - 2] + 64 * A[8 * k - 1] + 128 * A[8 * k]]
\* Keccak-256 of a byte sequence: pad10*1 with rate 1088, 24 rounds, first 32 bytes
StandardKeccak256(bytes) == Squeeze(Absorb(Force([p \in 1..1600 |-> 0]), BitsOf(Pad(bytes)), 1))

\* how many pre-images are open after position k of a symbolic content
Depth(repr, k) ==
  Cardinality({j \in 1..k : repr[j] = -1}) - Cardinality({j \in 1..k : repr[j] = -2})

RECURSIVE ConcreteBytes(_)
\* the bytes a symbolic content stands for: each bracketed pre-image is
\* replaced, innermost first, by its Keccak-256 digest
ConcreteBytes(repr) ==
  IF \A k \in 1..Len(repr) : repr[k] # -1 THEN repr
  ELSE LET open == CHOOSE k \in 1..Len(repr) :
                     repr[k] = -1 /\ \A j \in 1..(k - 1) : repr[j] # -1
           close == CHOOSE k \in (open + 1)..Len(repr) :
                      /\ Depth(repr, k) = 0
                      /\ \A j \in (open + 1)..(k - 1) : Depth(repr, j) # 0
       IN SubSeq(repr, 1, open - 1)
            \o StandardKeccak256(ConcreteBytes(SubSeq(repr, open + 1, close - 1)))
            \o ConcreteBytes(SubSeq(repr, close + 1, Len(repr)))

Concrete(d) == ConcreteBytes(d.repr)

\* the string a DataHexString value is
Rendered(d) == Hexlify(Concrete(d))

----------------------------------------------------------------------------
(* Properties of the encoder *)

\* the calls that compute a namehash
NamehashCalls ==
  {"namehash", "seed.namehash", "ENSInteraction.namehash", "ProductionENSManager.namehash"}

\* position of the first '.' of s, or 0
FirstDot(s) ==
  IF \E k \in 1..Len(s) : s[k] = CodeOf.dot
  THEN CHOOSE k \in 1..Len(s) : s[k] = CodeOf.dot /\ \A j \in 1..(k - 1) : s[j] # CodeOf.dot
  ELSE 0

\* the leftmost label of s and the name that follows it
LeftLabel(s) == IF FirstDot(s) = 0 THEN s ELSE SubSeq(s, 1, FirstDot(s) - 1)
ParentName(s) == IF FirstDot(s) = 0 THEN <<>> ELSE SubSeq(s, FirstDot(s) + 1, Len(s))

\* join(l, n): l when n is empty, l + '.' + n otherwise
Join(l, n) == IF n = <<>> THEN l ELSE l \o <<CodeOf.dot>> \o n

\* H(parent ++ H(utf8(l))); it has no value when the parent or utf8(l) has none
Compose(parent, l) ==
  IF parent.kind # "return" \/ ~toUtf8Bytes(l).ok THEN Throw("invalid utf-8 string")
  ELSE Return(keccak256(concat(parent.node, keccak256(toUtf8Bytes(l).data))))

\* C1: namehash is compositional: for a non-empty label l without '.' and any
\* name n, namehash(join(l, n)) = H(namehash(n) ++ H(utf8(l))); where the right
\* side has no value (n or l cannot be encoded) the call has none either.
C1_Compositional ==
  (call = "namehash" /\ arg.type = "string"
     /\ LeftLabel(arg.str) # <<>>
     /\ arg.str = Join(LeftLabel(arg.str), ParentName(arg.str)))
  => ret = Compose(namehash(JsString(ParentName(arg.str))), LeftLabel(arg.str))

\* C1 witness: a three-label name a.b.a has been hashed
C1_Witness ==
  /\ call = "namehash"
  /\ arg = JsString(Str(<<"a", "dot", "b", "dot", "a">>))
  /\ ret.kind = "return"
  /\ ret = Compose(namehash(JsString(Str(<<"b", "dot", "a">>))), Str(<<"a">>))

\* C2: every representation of namehash (shared helper, class methods, seed
\* script) returns the all-zero root node for the empty name; the manager is
\* taken after its initialize() has set up the cache.
C2_RootNodeEverywhere ==
  (call \in NamehashCalls /\ IsEmptyString(arg)
     /\ (call = "ProductionENSManager.namehash" => mgr.cache))
  => ret = Return(HashZero)

\* the node of every encoder input, computed once
NodeOf == [t \in EncoderStrings |-> namehash(JsString(t))]

\* C3: with a collision-free digest namehash is injective: no other string has
\* the node returned for this one; in particular 'a.b' and 'b.a' differ.
C3_Injective ==
  (call = "namehash" /\ arg.type = "string" /\ ret.kind = "return")
  => \A t \in EncoderStrings :
       t # arg.str => NodeOf[t] # ret

\* C3 witness: 'a.b' has been hashed, and 'b.a' hashes to a node of its own
C3_Witness ==
  /\ call = "namehash"
  /\ arg = JsString(Str(<<"a", "dot", "b">>))
  /\ ret.kind = "return"
  /\ namehash(JsString(Str(<<"b", "dot", "a">>))).kind = "return"

\* the fold of section 4.1 over the labels, each empty label hashed as H('')
RECURSIVE FoldLabels(_, _)
FoldLabels(labels, count) ==
  IF count = 0 THEN HashZero
  ELSE keccak256(concat(FoldLabels(labels, count - 1),
                        keccak256(toUtf8Bytes(labels[Len(labels) + 1 - count]).data)))

\* C4: namehash is total over strings: every string yields a 32-byte value and
\* no error, empty labels being folded in, in their position, as H('').
C4_Total ==
  (call = "namehash" /\ arg.type = "string")
  => /\ ret.kind = "return"
     /\ ret.node.hex /\ ret.node.len = 32
     /\ arg.str # <<>> => ret.node = FoldLabels(Split(arg.str), Len(Split(arg.str)))

----------------------------------------------------------------------------
(* Properties of the validator *)

ValidateCalls == {"validateENSName", "manager.validateENSName"}

\* a validator call on a string has returned
Validated == call \in ValidateCalls /\ arg.type = "string"

\* membership in a list of messages
Has(errors, message) == \E k \in 1..Len(errors) : errors[k] = message

IsLowerLetter(u) == u \in CodeOf.a..CodeOf.z
IsUpperLetter(u) == u \in CodeOf.A..CodeOf.Z
IsDigit(u) == u \in CodeOf.zero..CodeOf.nine

\* the five rules of section 4.2, as the specification words them; the empty
\* label, which has no character at all, is counted as breaking the character
\* rule and the first/last rule, as the validator counts it
RuleLength(s) == Len(s) >= 3 /\ Len(s) <= 63
RuleCharset(s) ==
  /\ s # <<>>
  /\ \A k \in 1..Len(s) : IsLowerLetter(s[k]) \/ IsDigit(s[k]) \/ s[k] = CodeOf.hyphen
RuleNoDoubleHyphen(s) ==
  \A k \in 1..Len(s) : k < Len(s) => ~(s[k] = CodeOf.hyphen /\ s[k + 1] = CodeOf.hyphen)
RuleEdges(s) ==
  /\ s # <<>>
  /\ IsLowerLetter(s[1]) \/ IsUpperLetter(s[1]) \/ IsDigit(s[1])
  /\ IsLowerLetter(s[Len(s)]) \/ IsUpperLetter(s[Len(s)]) \/ IsDigit(s[Len(s)])
ReservedWords ==
  {Str(<<"e", "t", "h">>), Str(<<"x", "y", "z">>), Str(<<"c", "o", "m">>),
   Str(<<"o", "r", "g">>), Str(<<"n", "e", "t">>), Str(<<"i", "o">>),
   Str(<<"a", "p", "p">>)}
RuleNotReserved(s) ==
  \A w \in ReservedWords :
    ~(Len(w) = Len(s) /\ \A k \in 1..Len(s) :
        s[k] = w[k] \/ (IsUpperLetter(s[k]) /\ s[k] + 32 = w[k]))

\* C5: validateENSName returns valid = true exactly when the five rules hold
\* together: length 3..63, characters in a-z 0-9 '-', no '--', alphanumeric
\* first and last character, lower-cased label not reserved.
C5_ValidIffAllRules ==
  Validated =>
    /\ ret.kind = "return"
    /\ ret.valid <=> /\ RuleLength(arg.str)
                     /\ RuleCharset(arg.str)
                     /\ RuleNoDoubleHyphen(arg.str)
                     /\ RuleEdges(arg.str)
                     /\ RuleNotReserved(arg.str)

\* C5 witness: the label 'a-9', which satisfies all five rules, has been found valid
C5_Witness ==
  /\ Validated
  /\ arg.str = Str(<<"a", "hyphen", "nine">>)
  /\ ret.valid

\* the messages of the rules a label violates, in the order of section 4.2
ViolatedRules(s) ==
  LET v1 == PushIf(<<>>, ~RuleLength(s), MsgLength)
      v2 == PushIf(v1, ~RuleCharset(s), MsgCharset)
      v3 == PushIf(v2, ~RuleNoDoubleHyphen(s), MsgHyphens)
      v4 == PushIf(v3, ~RuleEdges(s), MsgStartEnd)
      v5 == PushIf(v4, ~RuleNotReserved(s), MsgReserved)
  IN v5

\* C6: the errors list is exactly the messages of the violated rules of
\* section 4.2, once each, in rule order, and is empty exactly when valid.
C6_ExactViolations ==
  Validated =>
    /\ ret.errors = ViolatedRules(arg.str)
    /\ (ret.errors = <<>>) <=> ret.valid

\* C7: every rule is evaluated: each violated rule has its message in the one
\* result, and the reserved-word check ignores case, so 'ETH' carries both the
\* reserved-word and the character-set message.
C7_AllRulesEvaluated ==
  Validated =>
    /\ ~RuleLength(arg.str) => Has(ret.errors, MsgLength)
    /\ ~RuleCharset(arg.str) => Has(ret.errors, MsgCharset)
    /\ ~RuleNoDoubleHyphen(arg.str) => Has(ret.errors, MsgHyphens)
    /\ ~RuleEdges(arg.str) => Has(ret.errors, MsgStartEnd)
    /\ ~RuleNotReserved(arg.str) => Has(ret.errors, MsgReserved)
    /\ arg.str = Str(<<"e", "t", "h">>) => Has(ret.errors, MsgReserved)
    /\ arg.str = Str(<<"E", "T", "H">>) =>
         Has(ret.errors, MsgReserved) /\ Has(ret.errors, MsgCharset)

\* C7 witness: 'ETH' has been validated and carries both messages
C7_Witness ==
  /\ Validated
  /\ arg.str = Str(<<"E", "T", "H">>)
  /\ Has(ret.errors, MsgCharset) /\ Has(ret.errors, MsgReserved)
  /\ Len(ret.errors) > 1

ContainsUpper(s) == \E k \in 1..Len(s) : IsUpperLetter(s[k])

\* C8 as stated: a label with uppercase letters gets the character-set message
\* and never the reserved-word message.
C8_UpperNeverReserved ==
  (Validated /\ ContainsUpper(arg.str)) =>
    Has(ret.errors, MsgCharset) /\ ~Has(ret.errors, MsgReserved)

\* C8 amended: a label with uppercase letters gets the character-set message,
\* and gets the reserved-word message too exactly when its lower-case form is
\* a reserved word.
C8_UpperReservedIffLowerReserved ==
  (Validated /\ ContainsUpper(arg.str)) =>
    /\ Has(ret.errors, MsgCharset)
    /\ Has(ret.errors, MsgReserved) <=> ~RuleNotReserved(arg.str)

\* C8 witness: 'Eth' has been validated and is reported as reserved
C8_Witness ==
  /\ Validated
  /\ arg.str = Str(<<"E", "t", "h">>)
  /\ Has(ret.errors, MsgCharset)
  /\ Has(ret.errors, MsgReserved)

\* a label of length 1 or 2 made only of lowercase letters and digits
ShortLowerAlnum(s) ==
  Len(s) \in 1..2 /\ \A k \in 1..Len(s) : IsLowerLetter(s[k]) \/ IsDigit(s[k])

\* C9 as stated: every label of length 1 or 2 of lowercase letters and digits
\* is invalid with the length message and nothing else.
C9_ShortOnlyLength ==
  (Validated /\ ShortLowerAlnum(arg.str)) =>
    ~ret.valid /\ ret.errors = <<MsgLength>>

\* C9 amended: the same, for every such label other than the reserved word
\* 'io', whose errors are the length and the reserved-word message.
C9_ShortOnlyLengthUnlessReserved ==
  (Validated /\ ShortLowerAlnum(arg.str)) =>
    /\ ~ret.valid
    /\ ret.errors = IF arg.str = Str(<<"i", "o">>)
                    THEN <<MsgLength, MsgReserved>> ELSE <<MsgLength>>

\* C9 witness: 'a9' has been validated: the length message alone
C9_Witness ==
  /\ Validated
  /\ arg.str = Str(<<"a", "nine">>)
  /\ ret.errors = <<MsgLength>>

\* C10: for labels of lowercase letters that are not reserved words the length
\* bounds are inclusive: valid with no errors for every length 3..63, invalid
\* with the length message for 64, for the empty string and every other length.
C10_InclusiveBounds ==
  (Validated /\ (\A k \in 1..Len(arg.str) : IsLowerLetter(arg.str[k]))
     /\ arg.str \notin ReservedWords) =>
    IF Len(arg.str) >= 3 /\ Len(arg.str) <= 63
    THEN ret.valid /\ ret.errors = <<>>
    ELSE ~ret.valid /\ Has(ret.errors, MsgLength)

\* C10 witness: 'a' repeated 63 times has been found valid
C10_Witness ==
  /\ Validated
  /\ arg.str = Repeat(CodeOf.a, 63)
  /\ ret.valid /\ ret.errors = <<>>

----------------------------------------------------------------------------
(* The consecutive-hyphen rule, the start/end rule, the type guard *)

\* the hyphen character occurs twice in a row somewhere in s
ContainsTwoHyphens(s) ==
  \E pre, post \in 0..Len(s) :
    /\ pre + 2 + post = Len(s)
    /\ SubSeq(s, pre + 1, pre + 2) = <<CodeOf.hyphen, CodeOf.hyphen>>

\* C11: a validated string carries the consecutive-hyphen message exactly when
\* it contains two hyphens in a row, whatever the other rules say of it
C11_HyphenMessageIffDoubleHyphen ==
  Validated => (Has(ret.errors, MsgHyphens) <=> ContainsTwoHyphens(arg.str))

\* 'my--name' has been validated: the hyphen message is its only violation
C11_Witness ==
  /\ call = "validateENSName"
  /\ arg = JsString(Str(<<"m", "y", "hyphen", "hyphen", "n", "a", "m", "e">>))
  /\ ret.errors = <<MsgHyphens>>

\* the first or the last character of s is a hyphen
HyphenAtEdge(s) == s # <<>> /\ (Head(s) = CodeOf.hyphen \/ s[Len(s)] = CodeOf.hyphen)

\* C12: a string that starts or ends with a hyphen is invalid and carries the
\* start/end message; when the four other rules hold, that message is the only one
C12_HyphenEdgeInvalid ==
  (Validated /\ HyphenAtEdge(arg.str)) =>
    /\ ~ret.valid
    /\ Has(ret.errors, MsgStartEnd)
    /\ (RuleLength(arg.str) /\ RuleCharset(arg.str) /\ RuleNoDoubleHyphen(arg.str)
          /\ RuleNotReserved(arg.str))
        => ret.errors = <<MsgStartEnd>>

\* '-myname' has been validated and rejected for its first character alone
C12_Witness ==
  /\ call = "validateENSName"
  /\ arg = JsString(Str(<<"hyphen", "m", "y", "n", "a", "m", "e">>))
  /\ ret.errors = <<MsgStartEnd>>

\* C13: on a value that is not a string, either validator returns, without
\* throwing, valid = false and the one message that the name must be a string
C13_NonStringRejected ==
  (call \in ValidateCalls /\ arg.type # "string") =>
    /\ ret.kind = "return"
    /\ ~ret.valid
    /\ ret.errors = <<MsgNotString>>

\* an array has been validated by the helper
C13_Witness ==
  /\ call = "validateENSName"
  /\ arg.type = "array"
  /\ ret.errors = <<MsgNotString>>

----------------------------------------------------------------------------
(* Properties of ENSProject and of the manager's request methods *)

\* the operations that validate the name they are given
GuardedCalls ==
  {"ENSProject.resolveName", "ENSProject.getTextRecord", "ENSProject.getContentHash",
   "ENSProject.setTextRecord", "ProductionENSManager.resolveENS",
   "ProductionENSManager.getTextRecord"}

\* hashing, every registry and resolver call, and the cache write
HashingAndAccess ==
  {"namehash", "this.namehash", "registry.resolver", "registry.owner",
   "registry.setSubnodeOwner", "resolver.addr", "resolver.text",
   "resolver.contenthash", "resolver.setText", "tx.wait", "cache.set"}

\* position k of the log is the call of the validator
ValidatedAt(k) == k \in 1..Len(events) /\ events[k].op = "validateENSName"

\* C15: in the six guarded operations the validator is called before any
\* hashing, registry or resolver call; when the name is invalid the operation
\* throws 'Invalid ENS name: ...' with the validator's messages and has hashed
\* nothing, called no contract and written nothing to the cache
C15_ValidationFirst ==
  call \in GuardedCalls =>
    /\ \A k \in 1..Len(events) :
         events[k].op \in HashingAndAccess =>
           /\ \E j \in 1..(k - 1) : ValidatedAt(j)
           /\ validateENSName(arg).valid
    /\ ((\E k \in 1..Len(events) : ValidatedAt(k)) /\ ~validateENSName(arg).valid) =>
         /\ ret.kind = "throw"
         /\ ret.errors = <<MsgInvalidName>> \o validateENSName(arg).errors
         /\ \A k \in 1..Len(events) : events[k].op \notin HashingAndAccess

\* setTextRecord('my--name', ...) on an initialized project has thrown after
\* the validator alone was called
C15_Witness ==
  /\ call = "ENSProject.setTextRecord"
  /\ proj.isInitialized
  /\ arg = JsString(Str(<<"m", "y", "hyphen", "hyphen", "n", "a", "m", "e">>))
  /\ events = <<Did("validateENSName")>>
  /\ ret.errors = <<MsgInvalidName, MsgHyphens>>

VitalikEth == Str(<<"v", "i", "t", "a", "l", "i", "k", "dot", "e", "t", "h">>)
MyCompanyEth == Str(<<"m", "y", "c", "o", "m", "p", "a", "n", "y", "dot", "e", "t", "h">>)

\* C16: on an initialized project resolveName('vitalik.eth') returns the
\* address the resolver holds when registry and resolver both answer with a
\* set address, and createSubdomain('mycompany.eth', ...) by the owner of the
\* parent submits setSubnodeOwner for the parent's node
C16_DottedNameResolves ==
  /\ (call = "ENSProject.resolveName" /\ proj.isInitialized /\ arg = JsString(VitalikEth)
        /\ world.registry = "set" /\ world.resolver = "set")
       => ret = Return(SetAddress)
  /\ (call = "ENSProject.createSubdomain" /\ proj.isInitialized
        /\ arg = JsString(MyCompanyEth) /\ world.registry = "set" /\ world.tx = "ok")
       => \E k \in 1..Len(events) :
            /\ events[k].op = "registry.setSubnodeOwner"
            /\ events[k].node = namehash(arg).node

----------------------------------------------------------------------------
(* Properties of the seed script *)

\* the calls that write the records of the seeded name
RecordWrites == {"registry.setResolver", "resolver.setAddr", "resolver.setText"}

\* C17: whatever SEED_NAME the seed script ran with, the node its resolver,
\* addr and text records were written to is H(ethNode ++ labelHash) of the
\* setSubnodeOwner call that gave the user a node, and that call's ethNode is
\* namehash('eth')
C17_SeedNodeConsistent ==
  call = "seed.main" =>
    \A j, k \in 1..Len(events) :
      (events[j].op = "registry.setSubnodeOwner" /\ events[k].op \in RecordWrites) =>
        /\ events[j].node = SeedNamehash(JsString(Str(<<"e", "t", "h">>))).node
        /\ events[k].node = keccak256(concat(events[j].node, events[j].label))

----------------------------------------------------------------------------
(* Properties of registerDomain *)

\* the calls of one registration, in the order of the lifecycle
LifecycleOrder ==
  <<"available", "rentPrice", "getGasPrice", "makeCommitment", "commit",
    "commit.wait", "minCommitmentAge", "register", "register.wait">>

\* the call answered and did not say no
Succeeded(step) == step.answer \in {"true", "ok"}

\* C18: the calls of registerDomain follow the lifecycle order without gaps;
\* a call that fails or says unavailable is the last one and the method has
\* thrown; commit is sent only for a name reported available; register is
\* sent only after the commit was confirmed, and with the name, owner and
\* secret that went into makeCommitment
C18_StrictLifecycle ==
  /\ Len(reg.log) <= Len(LifecycleOrder)
  /\ \A k \in 1..Len(reg.log) :
       /\ reg.log[k].op = LifecycleOrder[k]
       /\ ~Succeeded(reg.log[k]) =>
            (k = Len(reg.log) /\ reg.pc = "rejected" /\ reg.error # "")
       /\ reg.log[k].op = "commit" => reg.log[1].answer = "true"
       /\ reg.log[k].op = "register" =>
            \E c, w \in 1..(k - 1) :
              /\ reg.log[w].op = "commit.wait" /\ reg.log[w].answer = "ok"
              /\ reg.log[c].op = "makeCommitment"
              /\ reg.log[k].args = reg.log[c].args
              /\ reg.log[k].args.name = reg.name
              /\ reg.log[k].args.owner = reg.owner
  /\ reg.pc = "resolved" => Len(reg.log) = Len(LifecycleOrder)

\* a registration has gone through all nine calls
C18_Witness ==
  /\ reg.pc = "resolved"
  /\ Len(reg.log) = Len(LifecycleOrder)
  /\ reg.log[Len(reg.log) - 1].args = Args(reg.name, reg.owner, reg.salt)

\* C19: register is sent at least minCommitmentAge seconds after the moment
\* the commit transaction was confirmed
C19_RegisterAfterMinAge ==
  \A k \in 1..Len(reg.log) :
    reg.log[k].op = "register" => reg.sentAt >= reg.confirmedAt + reg.minAge * 1000

\* with a minimum age of 60 seconds, register went out exactly 60 seconds
\* after a commit that was confirmed some time into the call
C19_Witness ==
  /\ reg.pc = "register.wait"
  /\ reg.minAge = 60
  /\ reg.confirmedAt > 0
  /\ reg.sentAt = reg.confirmedAt + 60000

----------------------------------------------------------------------------
(* Properties of retry *)

\* C20: operation is invoked at most maxRetries times, the k-th invocation
\* only after the (k-1)-th has failed; a success ends the call with that
\* attempt's result; the k-th sleep is asked to last delay * 2^(k-1) ms; there
\* is one sleep between consecutive attempts and none after the final attempt
C20_BoundedBackoff ==
  /\ rt.calls <= rt.maxRetries
  /\ rt.pc = "running" => (rt.calls = rt.i + 1 /\ rt.lastError = rt.calls - 1)
  /\ rt.pc = "resolved" => (rt.settled = rt.calls /\ rt.calls >= 1)
  /\ \A k \in 1..Len(rt.sleeps) : rt.sleeps[k] = rt.first * 2^(k - 1)
  /\ rt.pc \in {"running", "resolved"} => Len(rt.sleeps) = rt.calls - 1
  /\ rt.pc = "sleeping" => (Len(rt.sleeps) = rt.calls /\ rt.calls < rt.maxRetries)
  /\ rt.pc = "rejected" =>
       (rt.calls = rt.maxRetries /\ (rt.calls >= 1 => Len(rt.sleeps) = rt.calls - 1))

\* retry(operation, 3, 1000) has succeeded at its third attempt after sleeps
\* of 1000 and 2000 ms
C20_Witness ==
  /\ rt.pc = "resolved"
  /\ rt.maxRetries = 3
  /\ rt.calls = 3
  /\ rt.sleeps = <<1000, 2000>>

----------------------------------------------------------------------------
(* What retry settles with *)

\* C21: when retry rejects, operation has been invoked and the rejection value
\* is what its last invocation threw; when retry resolves, the value is the
\* result of an invocation that succeeded
C21_RejectsWithLastError ==
  /\ rt.pc = "rejected" => (rt.calls >= 1 /\ rt.settled = rt.calls)
  /\ rt.pc = "resolved" => (rt.calls >= 1 /\ rt.settled = rt.calls)

----------------------------------------------------------------------------
(* The published test vectors *)

\* a string written in the characters 0-9 and a-f, one code unit per character
HexText(digits) == [k \in 1..Len(digits) |-> HexDigit(digits[k])]

\* 0x93cdeb708b7545dc668eb9280176169d1c33cfd8ed6f04690a0bcc88a93fc4ae
VectorEth ==
  <<CodeOf.zero, CodeOf.x>> \o HexText(<<
    9, 3, 12, 13, 14, 11, 7, 0, 8, 11, 7, 5, 4, 5, 13, 12,
    6, 6, 8, 14, 11, 9, 2, 8, 0, 1, 7, 6, 1, 6, 9, 13,
    1, 12, 3, 3, 12, 15, 13, 8, 14, 13, 6, 15, 0, 4, 6, 9,
    0, 10, 0, 11, 12, 12, 8, 8, 10, 9, 3, 15, 12, 4, 10, 14 >>)

\* 0xde9b09fd7c5f901e23a3f19fecc54828e9c848539801e86591bd9801b019f84f
VectorFooEth ==
  <<CodeOf.zero, CodeOf.x>> \o HexText(<<
    13, 14, 9, 11, 0, 9, 15, 13, 7, 12, 5, 15, 9, 0, 1, 14,
    2, 3, 10, 3, 15, 1, 9, 15, 14, 12, 12, 5, 4, 8, 2, 8,
    14, 9, 12, 8, 4, 8, 5, 3, 9, 8, 0, 1, 14, 8, 6, 5,
    9, 1, 11, 13, 9, 8, 0, 1, 11, 0, 1, 9, 15, 8, 4, 15 >>)

\* C22: with standard Keccak-256 as the digest, namehash('eth') and
\* namehash('foo.eth') are the published ENS vectors, written as '0x' and 64
\* lower-case hex characters
C22_KnownVectors ==
  call = "namehash" =>
    /\ arg = JsString(Str(<<"e", "t", "h">>)) =>
         (ret.kind = "return" /\ ret.node.hex /\ Rendered(ret.node) = VectorEth)
    /\ arg = JsString(Str(<<"f", "o", "o", "dot", "e", "t", "h">>)) =>
         (ret.kind = "return" /\ ret.node.hex /\ Rendered(ret.node) = VectorFooEth)

\* namehash('foo.eth') has returned a string of 66 characters
C22_Witness ==
  /\ call = "namehash"
  /\ arg = JsString(Str(<<"f", "o", "o", "dot", "e", "t", "h">>))
  /\ ret.kind = "return"
  /\ ret.node.len = 32

----------------------------------------------------------------------------
(* The manager's namehash against the shared one *)

\* C23: on an initialized manager, ProductionENSManager.namehash(name) returns
\* for every string what the shared namehash(name) returns
C23_ManagerNamehashAgrees ==
  (call = "ProductionENSManager.namehash" /\ mgr.cache /\ arg.type = "string") =>
    ret = namehash(arg)

----------------------------------------------------------------------------
(* Properties of the rate limiter *)

\* calls that returned true with their timestamp in the window ending at T
GrantedIn(T) ==
  {i \in DOMAIN rl.granted :
     rl.granted[i] > T - rl.windowMs /\ rl.granted[i] <= T}

\* C24: under every interleaving of checkLimit calls on one identifier, the
\* calls that returned true with timestamps inside one window of windowMs
\* are never more than maxRequests, and a call that found maxRequests or
\* more recorded requests threw 'Rate limit exceeded' and recorded nothing.
C24_LimitEnforced ==
  rl.made =>
    /\ \A T \in 0..MaxClock : Cardinality(GrantedIn(T)) <= rl.maxRequests
    /\ \A c \in Clients :
         rl.calls[c].error = "Rate limit exceeded" =>
           (rl.calls[c].requestCount >= rl.maxRequests /\ ~rl.calls[c].recorded)

----------------------------------------------------------------------------
(* Properties of batchResolve *)

\* C25: a batch that got past its own guard returns one entry per input name,
\* in input order; the entry of a name whose resolution succeeded has
\* success = true, the resolved address and error null, and the entry of a
\* name whose resolution threw has success = false, address null and a
\* non-null error message.
C25_OneEntryPerName ==
  (batch.pc = "settled" /\ batch.kind = "return") =>
    /\ Len(batch.entries) = Len(batch.names)
    /\ \A i \in 1..Len(batch.names) :
         LET entry == batch.entries[i]
             inner == batch.inner[i]
         IN /\ entry.name = batch.names[i]
            /\ inner.kind = "return" =>
                 (entry.success /\ entry.address = ValueOf(inner.node)
                    /\ entry.error = JsNull)
            /\ inner.kind = "throw" =>
                 (~entry.success /\ entry.address = JsNull
                    /\ entry.error = MessageOf(inner.errors))

----------------------------------------------------------------------------
(* The initialization guard of ENSProject *)

\* the methods that open with the isInitialized guard
InitGuardedCalls ==
  {"ENSProject.resolveName", "ENSProject.getTextRecord", "ENSProject.setTextRecord",
   "ENSProject.getContentHash", "ENSProject.createSubdomain",
   "ENSProject.batchResolve", "ENSProject.getProfile"}

\* C26: isInitialized = true implies the provider and the two contract handles
\* exist; an initialize() that failed leaves isInitialized false; and while it
\* is false each of the seven guarded methods throws 'ENS Project not
\* initialized' and has made no provider or contract call.
C26_InitializationGuard ==
  /\ proj.isInitialized => (proj.provider /\ proj.contracts)
  /\ (call = "ENSProject.initialize" /\ ret.kind = "throw") => ~proj.isInitialized
  /\ (call \in InitGuardedCalls /\ ~proj.isInitialized) =>
       (ret = Throw(MsgNotInitialized) /\ events = <<>>)

\* the parts of C26 that do not speak of a failed initialize()
C26_GuardedWhileFalse ==
  /\ proj.isInitialized => (proj.provider /\ proj.contracts)
  /\ (call \in InitGuardedCalls /\ ~proj.isInitialized) =>
       (ret = Throw(MsgNotInitialized) /\ events = <<>>)

----------------------------------------------------------------------------
(* Properties of the ENSMobileManager text-record cache *)

\* C27: once setTextRecord(name, key, v) has completed and no later write is
\* under way, the cache entry text:name:key holds no value other than v (none
\* read from the resolver before the write was confirmed), and every
\* getTextRecord(name, key) that completes then returns v.
C27_CacheCoherent ==
  /\ (mob.confirmed # 0 /\ NoWriteInProgress) =>
       (mob.entry.has => mob.entry.value = mob.confirmed)
  /\ \A r \in Readers :
       (mob.get[r].pc = "returned" /\ mob.get[r].expected # 0) =>
         mob.get[r].value = mob.get[r].expected

----------------------------------------------------------------------------
(* Properties of ENSDomainInput *)

\* the validation state that belongs to an input value
StateFor(value) ==
  IF Len(value) >= 3 THEN ValidationOf(value) ELSE ResetValidation

\* C28: once no debounce timer is pending, the validation state is the one
\* computed for the current input value (validateENSName(value) for three
\* characters or more, the reset state for fewer) and isValidating is false;
\* and every run of the debounced callback validated the value that was the
\* current input when it ran.
C28_ValidationOfCurrentInput ==
  /\ ~inp.timer.pending =>
       (inp.validation = StateFor(inp.inputValue) /\ ~inp.isValidating)
  /\ \A k \in 1..Len(inp.fired) : inp.fired[k][1] = inp.fired[k][2]

----------------------------------------------------------------------------
(* Properties of the content-hash helpers *)

\* the string starts with 'Qm' or with 'bafy'
IsIpfsHash(h) == StartsWith(h, Str(<<"Q", "m">>)) \/ StartsWith(h, Str(<<"b", "a", "f", "y">>))

\* C29: for every string h that starts with 'Qm' or 'bafy', whatever its
\* length, decodeContentHash(encodeContentHash(h)) returns h.
C29_RoundTrip ==
  (call = "decodeContentHash(encodeContentHash)" /\ IsIpfsHash(arg.str)) =>
    ret = Return(JsString(arg.str))

\* the round trip of the hashes whose UTF-8 form is shorter than 256 bytes
C29_RoundTripShort ==
  (call = "decodeContentHash(encodeContentHash)" /\ IsIpfsHash(arg.str)
     /\ toUtf8Bytes(arg.str).ok /\ toUtf8Bytes(arg.str).data.len < 256) =>
    ret = Return(JsString(arg.str))

----------------------------------------------------------------------------
(* The copies of namehash *)

\* the copies of namehash that are plain functions of the name
NamehashCopies ==
  {"namehash", "seed.namehash", "ENSInteraction.namehash", "README.namehash"}

\* what each copy makes of a name
CopyResult(copy, name) ==
  CASE copy = "namehash" -> namehash(name)
    [] copy = "seed.namehash" -> SeedNamehash(name)
    [] copy = "ENSInteraction.namehash" -> InteractionNamehash(name)
    [] OTHER -> ReadmeNamehash(name)

\* C30: for every string input the copies of namehash in ens-helpers.js, in
\* ENSInteraction, in the seed script and in the Module 01 README end the same
\* way, with the same node hash or all with the encoder's throw; neither the
\* guard (name === '' or if (name)) nor arrayify(node) makes a difference.
C30_CopiesAgree ==
  (call \in NamehashCopies /\ arg.type = "string") =>
    \A copy \in NamehashCopies : ret = CopyResult(copy, arg)

\* the README copy has hashed a.b, and the seed copy has answered ''
C30_Witness ==
  \/ /\ call = "README.namehash"
     /\ arg = JsString(Str(<<"a", "dot", "b">>))
     /\ ret.kind = "return"
     /\ ret.node # HashZero
  \/ /\ call = "seed.namehash"
     /\ arg = JsString(<<>>)
     /\ ret = Return(HashZero)

====
